---------------------------- MODULE Spec2Model ----------------------------
(***************************************************************************)
(* Model of AnalysisToolkit: the process memory-map parser                 *)
(* (modules/utility: ProcessMemoryParser.h / ProcessMemoryParser.cpp), the *)
(* hook manager and the toolkit facade.                                    *)
(*                                                                         *)
(* Text is modelled character by character: a std::string is a sequence of *)
(* one-character strings, so that tokenising, trimming, substring search   *)
(* and number conversion are computed the way the code computes them.      *)
(*                                                                         *)
(* Machine words are scaled down because the model checker's integers are  *)
(* 32 bits wide: unsigned long long / unsigned long / uintptr_t / uint64_t *)
(* (64 bits on the LP64 targets of the text backend) are WordBits wide and *)
(* uint32_t is InodeBits wide, with InodeBits < WordBits as 32 < 64.       *)
(*                                                                         *)
(* Several specifications share the variables: Spec is the parser with     *)
(* the backend its build target selects (the text backend, the             *)
(* region-enumeration backend, or none); SpecResult is the Result class    *)
(* used on its own; SpecPermissions is MemoryPermissions used on its own;  *)
(* SpecEnumeration follows the loop of the region-enumeration backend one  *)
(* kernel query at a time; SpecParserThreads has two threads on parser     *)
(* instances of their own or on a shared one; SpecHooks and                *)
(* SpecHookThreads are HookManager (hook/inline_hook) called by one thread *)
(* and by two; SpecToolkit and SpecToolkitThreads are the toolkit facade   *)
(* (AnalysisToolkit.cpp) with the Logger, called by one thread and by two. *)
(***************************************************************************)
EXTENDS Integers, Sequences, FiniteSets, TLC

(***************************************************************************)
(* Bounds of the model.                                                    *)
(***************************************************************************)
\* width of unsigned long long, unsigned long, uintptr_t, uint64_t, size_t
WordBits == 24
\* width of uint32_t
InodeBits == 20
\* largest number of lines of a mapping source
MaxLines == 2

RECURSIVE Pow2(_)
Pow2(n) == IF n = 0 THEN 1 ELSE 2 * Pow2(n - 1)

\* the longest list of regions the kernel enumerates
MaxVmRegions == 2
\* the longest permission string given to fromString
MaxPermLen == 5

WordModulus == Pow2(WordBits)
InodeModulus == Pow2(InodeBits)

(***************************************************************************)
(* Lines a mapping source may hold, and path strings, as character         *)
(* sequences.                                                              *)
(***************************************************************************)
\* "00400000-00401000 r-xp 00000000 08:01 123456 /usr/bin/true"
LineScenarioA ==
    <<"0", "0", "4", "0", "0", "0", "0", "0", "-", "0", "0", "4", "0", "1",
      "0", "0", "0", " ", "r", "-", "x", "p", " ", "0", "0", "0", "0", "0",
      "0", "0", "0", " ", "0", "8", ":", "0", "1", " ", "1", "2", "3", "4",
      "5", "6", " ", "/", "u", "s", "r", "/", "b", "i", "n", "/", "t", "r",
      "u", "e">>
\* "junk"
LineJunk ==
    <<"j", "u", "n", "k">>
\* "1000-2000 rw-p 0 00:00 0"
LineAnon ==
    <<"1", "0", "0", "0", "-", "2", "0", "0", "0", " ", "r", "w", "-", "p",
      " ", "0", " ", "0", "0", ":", "0", "0", " ", "0">>
\* "2000-1000 r--s 0 00:00 0 "
LineReversed ==
    <<"2", "0", "0", "0", "-", "1", "0", "0", "0", " ", "r", "-", "-", "s",
      " ", "0", " ", "0", "0", ":", "0", "0", " ", "0", " ">>
\* "1000-2000zz rwxp 0 00:00 7"
LineEndGarbage ==
    <<"1", "0", "0", "0", "-", "2", "0", "0", "0", "z", "z", " ", "r", "w",
      "x", "p", " ", "0", " ", "0", "0", ":", "0", "0", " ", "7">>
\* "zz-2000 r-xp 0 00:00 0"
LineBadStart ==
    <<"z", "z", "-", "2", "0", "0", "0", " ", "r", "-", "x", "p", " ", "0",
      " ", "0", "0", ":", "0", "0", " ", "0">>
\* "10002000 r-xp 0 00:00 0"
LineNoDash ==
    <<"1", "0", "0", "0", "2", "0", "0", "0", " ", "r", "-", "x", "p", " ",
      "0", " ", "0", "0", ":", "0", "0", " ", "0">>
\* "\t3000-4000\t-w-p  10 fd:01 4194305  /tmp/a b"
LineTabsBigInode ==
    <<"\t", "3", "0", "0", "0", "-", "4", "0", "0", "0", "\t", "-", "w", "-",
      "p", " ", " ", "1", "0", " ", "f", "d", ":", "0", "1", " ", "4", "1",
      "9", "4", "3", "0", "5", " ", " ", "/", "t", "m", "p", "/", "a", " ",
      "b">>
\* "1000-2000 r-xp 0 00:00"
LineFourTokens ==
    <<"1", "0", "0", "0", "-", "2", "0", "0", "0", " ", "r", "-", "x", "p",
      " ", "0", " ", "0", "0", ":", "0", "0">>
\* "/usr/bin/true"
PathTrue ==
    <<"/", "u", "s", "r", "/", "b", "i", "n", "/", "t", "r", "u", "e">>
\* "bin"
PathBin ==
    <<"b", "i", "n">>
EmptyString == <<>>

LineSet ==
    { LineScenarioA, LineJunk, LineAnon, LineReversed, LineEndGarbage,
      LineBadStart, LineNoDash, LineTabsBigInode, LineFourTokens }

(***************************************************************************)
(* std::string and stream primitives used by the parser.                   *)
(***************************************************************************)
\* std::string::npos
npos == -1

\* std::isspace in the "C" locale (a line read by std::getline holds no "\n")
IsSpace(c) == c \in {" ", "\t", "\n", "\r", "\f"}

\* operator>> first skips whitespace: index of the first non-space at or after i
RECURSIVE SkipSpace(_, _)
SkipSpace(s, i) ==
    IF i <= Len(s) /\ IsSpace(s[i]) THEN SkipSpace(s, i + 1) ELSE i

\* operator>> then reads up to the next whitespace or the end of the stream
RECURSIVE TokenEnd(_, _)
TokenEnd(s, i) ==
    IF i <= Len(s) /\ ~IsSpace(s[i]) THEN TokenEnd(s, i + 1) ELSE i

\* iss >> token, on a stream [s, pos, fail, tok], the whitespace skipped up to
\* index b: a failed stream stays failed and extracts nothing; reaching the end
\* with no character read sets failbit
ExtractAt(st, b) ==
    IF st.fail \/ b > Len(st.s)
    THEN [s |-> st.s, pos |-> st.pos, fail |-> TRUE, tok |-> <<>>]
    ELSE [s |-> st.s, pos |-> TokenEnd(st.s, b), fail |-> FALSE,
          tok |-> SubSeq(st.s, b, TokenEnd(st.s, b) - 1)]

Extract(st) == ExtractAt(st, SkipSpace(st.s, st.pos))

\* std::getline(iss, pathname): the rest of the stream
GetLine(st) == SubSeq(st.s, st.pos, Len(st.s))

\* std::string::find_first_not_of(" \t"), 0-based, npos when there is none
RECURSIVE FindFirstNotOfBlank(_, _)
FindFirstNotOfBlank(s, i) ==
    IF i > Len(s) THEN npos
    ELSE IF s[i] \notin {" ", "\t"} THEN i - 1
    ELSE FindFirstNotOfBlank(s, i + 1)

\* std::string::erase(0, n): n = npos erases to the end
Erase0(s, n) == IF n = npos \/ n >= Len(s) THEN <<>> ELSE SubSeq(s, n + 1, Len(s))

\* std::string::find(char), 0-based, npos when absent
RECURSIVE FindChar(_, _, _)
FindChar(s, c, i) ==
    IF i > Len(s) THEN npos
    ELSE IF s[i] = c THEN i - 1
    ELSE FindChar(s, c, i + 1)

\* std::string::find(const std::string&), 0-based, npos when absent; an empty
\* needle is found at position 0 of every string
RECURSIVE FindFrom(_, _, _)
FindFrom(hay, needle, i) ==
    IF i + Len(needle) - 1 > Len(hay) THEN npos
    ELSE IF SubSeq(hay, i, i + Len(needle) - 1) = needle THEN i - 1
    ELSE FindFrom(hay, needle, i + 1)

\* as Find, giving up at once on an empty haystack
FindNonEmptyHaystack(hay, needle) ==
    IF hay = <<>> THEN npos ELSE FindFrom(hay, needle, 1)

Find(hay, needle) == FindFrom(hay, needle, 1)

\* std::string::substr(pos, n) and substr(pos), 0-based
Substr(s, pos, n) == SubSeq(s, pos + 1, pos + n)
SubstrFrom(s, pos) == SubSeq(s, pos + 1, Len(s))

(***************************************************************************)
(* std::stoull(str, nullptr, base) and std::stoul(str): strtoull's         *)
(* conversion.  Leading whitespace, then an optional sign, then for base   *)
(* 16 an optional 0x or 0X, then the longest run of digits; what follows   *)
(* the run is ignored.  No digit at all throws std::invalid_argument, a    *)
(* value above the largest word throws std::out_of_range, and a minus sign *)
(* negates the value as an unsigned word.                                  *)
(***************************************************************************)
DigitValue(c) ==
    CASE c = "0" -> 0 [] c = "1" -> 1 [] c = "2" -> 2 [] c = "3" -> 3
      [] c = "4" -> 4 [] c = "5" -> 5 [] c = "6" -> 6 [] c = "7" -> 7
      [] c = "8" -> 8 [] c = "9" -> 9
      [] c \in {"a", "A"} -> 10 [] c \in {"b", "B"} -> 11
      [] c \in {"c", "C"} -> 12 [] c \in {"d", "D"} -> 13
      [] c \in {"e", "E"} -> 14 [] c \in {"f", "F"} -> 15
      [] OTHER -> 99

IsDigit(c, base) == DigitValue(c) < base

\* the digit run from index i: [any, overflow, val]
RECURSIVE Digits(_, _, _, _)
Digits(s, i, base, acc) ==
    IF i <= Len(s) /\ IsDigit(s[i], base)
    THEN IF acc.overflow \/ acc.val * base + DigitValue(s[i]) >= WordModulus
         THEN Digits(s, i + 1, base, [any |-> TRUE, overflow |-> TRUE, val |-> 0])
         ELSE Digits(s, i + 1, base,
                     [any |-> TRUE, overflow |-> FALSE,
                      val |-> acc.val * base + DigitValue(s[i])])
    ELSE acc

\* the optional sign at index i
HasSign(str, i) == i <= Len(str) /\ str[i] \in {"+", "-"}
IsNegative(str, i) == HasSign(str, i) /\ str[i] = "-"
AfterSign(str, i) == IF HasSign(str, i) THEN i + 1 ELSE i

\* the optional 0x or 0X of base 16 at index i, taken only before a digit
HasPrefix(str, base, i) ==
    /\ base = 16
    /\ i + 2 <= Len(str)
    /\ str[i] = "0"
    /\ str[i + 1] \in {"x", "X"}
    /\ IsDigit(str[i + 2], 16)
AfterPrefix(str, base, i) == IF HasPrefix(str, base, i) THEN i + 2 ELSE i

\* what the conversion returns or throws, from the sign and the digit run d
Converted(negative, d) ==
    IF ~d.any THEN [thrown |-> "invalid_argument", val |-> 0]
    ELSE IF d.overflow THEN [thrown |-> "out_of_range", val |-> 0]
    ELSE [thrown |-> "none",
          val |-> IF negative THEN (WordModulus - d.val) % WordModulus ELSE d.val]

Stoull(str, base) ==
    Converted(IsNegative(str, SkipSpace(str, 1)),
              Digits(str, AfterPrefix(str, base, AfterSign(str, SkipSpace(str, 1))),
                     base, [any |-> FALSE, overflow |-> FALSE, val |-> 0]))

Stoul(str) == Stoull(str, 10)

(***************************************************************************)
(* MemoryPermissions                                                       *)
(***************************************************************************)
\* a default-constructed MemoryPermissions: every flag false
DefaultPermissions ==
    [readable |-> FALSE, writable |-> FALSE, executable |-> FALSE,
     private_mapping |-> FALSE]

PermissionValues ==
    [readable : BOOLEAN, writable : BOOLEAN, executable : BOOLEAN,
     private_mapping : BOOLEAN]

\* as toString, with '-' written for a shared mapping
toStringSharedAsDash(perms) ==
    <<IF perms.readable THEN "r" ELSE "-",
      IF perms.writable THEN "w" ELSE "-",
      IF perms.executable THEN "x" ELSE "-",
      IF perms.private_mapping THEN "p" ELSE "-">>

toString(perms) ==
    <<IF perms.readable THEN "r" ELSE "-",
      IF perms.writable THEN "w" ELSE "-",
      IF perms.executable THEN "x" ELSE "-",
      IF perms.private_mapping THEN "p" ELSE "s">>

\* as fromString, reading as many of the four positions as the string has
fromStringPartial(perm_str) ==
    [readable |-> (Len(perm_str) >= 1 /\ perm_str[1] = "r"),
     writable |-> (Len(perm_str) >= 2 /\ perm_str[2] = "w"),
     executable |-> (Len(perm_str) >= 3 /\ perm_str[3] = "x"),
     private_mapping |-> (Len(perm_str) >= 4 /\ perm_str[4] = "p")]

fromString(perm_str) ==
    IF Len(perm_str) >= 4
    THEN [readable |-> (perm_str[1] = "r"),
          writable |-> (perm_str[2] = "w"),
          executable |-> (perm_str[3] = "x"),
          private_mapping |-> (perm_str[4] = "p")]
    ELSE DefaultPermissions

(***************************************************************************)
(* MemoryRegion                                                            *)
(***************************************************************************)
MemoryRegion(start, end, perms, offset, device, inode, pathname, original_line) ==
    [start_address_ |-> start, end_address_ |-> end, permissions_ |-> perms,
     offset_ |-> offset, device_ |-> device, inode_ |-> inode,
     pathname_ |-> pathname, original_line_ |-> original_line]

\* size_t getSize(): unsigned subtraction, modulo the word
getSize(region) ==
    (region.end_address_ - region.start_address_ + WordModulus) % WordModulus

\* as contains, with the end address taken as inclusive
ContainsThroughEnd(region, address) ==
    address >= region.start_address_ /\ address <= region.end_address_

contains(region, address) ==
    address >= region.start_address_ /\ address < region.end_address_

isAnonymous(region) ==
    region.pathname_ = <<>> \/ region.pathname_ = <<"[", "a", "n", "o", "n", "]">>

(***************************************************************************)
(* ProcessMemoryParser::parseMapsLine                                      *)
(***************************************************************************)
nullopt == [has_value |-> FALSE]

\* iss >> addr_range >> perms >> offset_str >> device >> inode_str: n more
\* extractions from stream st, the tokens read so far in toks
RECURSIVE ExtractTokens(_, _, _)
ExtractTokens(st, n, toks) ==
    IF n = 0 THEN [st |-> st, toks |-> toks]
    ELSE ExtractTokens(Extract(st), n - 1, Append(toks, Extract(st).tok))

\* the pathname: the rest of the stream, its leading blanks erased
TrimmedRest(rest) == Erase0(rest, FindFirstNotOfBlank(rest, 1))

\* the try block and the construction of the region, from the converted numbers
BuildRegion(line, toks, pathname, start_addr, end_addr, offset, inode) ==
    IF \/ start_addr.thrown # "none"
       \/ end_addr.thrown # "none"
       \/ offset.thrown # "none"
       \/ inode.thrown # "none"
    THEN nullopt
    ELSE [has_value |-> TRUE,
          value |-> MemoryRegion(start_addr.val, end_addr.val, fromString(toks[2]),
                                 offset.val, toks[4], inode.val % InodeModulus,
                                 pathname, line)]

\* the address range split at dash_pos, and the four conversions
SplitRange(line, toks, pathname, dash_pos) ==
    IF dash_pos = npos THEN nullopt
    ELSE BuildRegion(line, toks, pathname,
                     Stoull(Substr(toks[1], 0, dash_pos), 16),
                     Stoull(SubstrFrom(toks[1], dash_pos + 1), 16),
                     Stoull(toks[3], 16),
                     Stoul(toks[5]))

\* the line after the five extractions, in stream state f.st with tokens f.toks
ParseFields(line, f) ==
    IF f.st.fail THEN nullopt
    ELSE SplitRange(line, f.toks, TrimmedRest(GetLine(f.st)),
                    FindChar(f.toks[1], "-", 1))

parseMapsLine(line) ==
    ParseFields(line,
                ExtractTokens([s |-> line, pos |-> 1, fail |-> FALSE, tok |-> <<>>],
                              5, <<>>))

\* the conversion of every line the model's sources can hold, computed once
MapsLineTable == [l \in LineSet |-> parseMapsLine(l)]

(***************************************************************************)
(* Region filters: the predicates callers install (std::function), named.  *)
(***************************************************************************)
NoFilter == "nullptr"

\* tests: region.getSize() >= 4096
FilterLarge == "size>=4096"
\* example and app: region.isAnonymous() && region.getSize() > 1024 * 1024
FilterLargeAnonymous == "anonymous&&size>1MiB"

Filters == {FilterLarge, FilterLargeAnonymous}

CallFilter(filter, region) ==
    CASE filter = FilterLarge -> getSize(region) >= 4096
      [] filter = FilterLargeAnonymous ->
            isAnonymous(region) /\ getSize(region) > 1024 * 1024

shouldIncludeRegion(filter, region) ==
    filter = NoFilter \/ CallFilter(filter, region)

(***************************************************************************)
(* Result<std::vector<MemoryRegion>>                                       *)
(***************************************************************************)
ErrorCodes ==
    {"SUCCESS", "PROCESS_NOT_FOUND", "PERMISSION_DENIED", "FILE_NOT_FOUND",
     "PARSE_ERROR", "PLATFORM_NOT_SUPPORTED", "UNKNOWN_ERROR"}

ResultValue(value) == [value_ |-> value, error_ |-> "SUCCESS", error_message_ |-> ""]

ResultError(error, message) ==
    [value_ |-> <<>>, error_ |-> error, error_message_ |-> message]

isSuccess(result) == result.error_ = "SUCCESS"
hasError(result) == result.error_ # "SUCCESS"

\* as getValue, without the test of hasError
getValueUnchecked(result) == [kind |-> "value", value |-> result.value_]

\* getValue(): the payload, or the std::runtime_error thrown
getValue(result) ==
    IF hasError(result)
    THEN [kind |-> "throw", what |-> "std::runtime_error",
          message |-> "Attempting to get value from failed result: "
                         \o result.error_message_]
    ELSE [kind |-> "value", value |-> result.value_]

(***************************************************************************)
(* The text backend: ProcessMemoryParser::parseLinuxMaps                   *)
(***************************************************************************)
Pids == {-1, 0, 1}

getMapsFilePath(pid) ==
    IF pid <= 0 THEN "/proc/self/maps" ELSE "/proc/" \o ToString(pid) \o "/maps"

\* What opening the mapping source does: the reasons it cannot be opened and
\* the errno open(2) leaves for each.
OpenCauses == {"no_such_process", "access_denied", "other_failure"}

OpenErrno(cause) ==
    CASE cause = "no_such_process" -> "ENOENT"
      [] cause = "access_denied" -> "EACCES"
      [] cause = "other_failure" -> "EMFILE"
      [] OTHER -> "0"

\* as PushRegion, with a region equal to one already pushed left out
PushRegionOnce(region, filter, regions) ==
    IF /\ region.has_value
       /\ shouldIncludeRegion(filter, region.value)
       /\ \A i \in DOMAIN regions : regions[i] # region.value
    THEN Append(regions, region.value)
    ELSE regions

\* as PushRegion, with the installed predicate never asked
PushRegionUnfiltered(region, filter, regions) ==
    IF region.has_value THEN Append(regions, region.value) ELSE regions

\* the body of the read loop: the optional region of one line is appended when
\* it has a value and the filter lets it through
PushRegion(region, filter, regions) ==
    IF region.has_value /\ shouldIncludeRegion(filter, region.value)
    THEN Append(regions, region.value)
    ELSE regions

\* as ReadLines, leaving the loop at the first line that yields no region
RECURSIVE ReadLinesStopAtBadLine(_, _, _)
ReadLinesStopAtBadLine(lines, filter, regions) ==
    IF lines = <<>> \/ ~MapsLineTable[Head(lines)].has_value THEN regions
    ELSE ReadLinesStopAtBadLine(Tail(lines), filter,
                                PushRegion(MapsLineTable[Head(lines)], filter, regions))

\* the while (std::getline(file, line)) loop
RECURSIVE ReadLines(_, _, _)
ReadLines(lines, filter, regions) ==
    IF lines = <<>> THEN regions
    ELSE ReadLines(Tail(lines), filter,
                   PushRegion(MapsLineTable[Head(lines)], filter, regions))

\* as OpenFailure, with ENOENT and EACCES falling into one branch
OpenFailureCollapsed(errno, pid, maps_path) ==
    IF errno = "ENOENT" \/ errno = "EACCES"
    THEN ResultError("PERMISSION_DENIED",
                     "Permission denied accessing process: " \o ToString(pid))
    ELSE ResultError("FILE_NOT_FOUND", "Cannot open maps file: " \o maps_path)

\* the branch taken when the file is not open: the Result built from errno
OpenFailure(errno, pid, maps_path) ==
    IF errno = "ENOENT"
    THEN ResultError("PROCESS_NOT_FOUND", "Process not found: " \o ToString(pid))
    ELSE IF errno = "EACCES"
    THEN ResultError("PERMISSION_DENIED",
                     "Permission denied accessing process: " \o ToString(pid))
    ELSE ResultError("FILE_NOT_FOUND", "Cannot open maps file: " \o maps_path)

parseLinuxMaps(src, filter, pid) ==
    LET maps_path == getMapsFilePath(pid)
    IN  IF src.cause # "ok"
        THEN OpenFailure(OpenErrno(src.cause), pid, maps_path)
        ELSE ResultValue(ReadLines(src.lines, filter, <<>>))

\* the system calls the text backend makes: the open, and when it succeeds one
\* read per line and the read that meets the end of the file
LinuxSysCalls(src) ==
    IF src.cause # "ok" THEN <<"open">>
    ELSE <<"open">> \o [i \in 1 .. Len(src.lines) + 1 |-> "getline"]

(***************************************************************************)
(* The region-enumeration backend: ProcessMemoryParser::parseMacOSMaps     *)
(***************************************************************************)
\* <mach/vm_prot.h>: the protection bits
VM_PROT_READ == 1
VM_PROT_WRITE == 2
VM_PROT_EXECUTE == 4

\* (protection & bit) != 0
HasProt(protection, bit) == (protection \div bit) % 2 = 1

\* regions of an address space, as vm_region_64 reports them
VmRegionSet ==
    { [address |-> 4096, size |-> 4096,
       protection |-> VM_PROT_READ + VM_PROT_EXECUTE, shared |-> FALSE],
      [address |-> 8192, size |-> 8192,
       protection |-> VM_PROT_READ + VM_PROT_WRITE, shared |-> TRUE],
      [address |-> 65536, size |-> 4096,
       protection |-> VM_PROT_READ + VM_PROT_WRITE + VM_PROT_EXECUTE,
       shared |-> TRUE],
      [address |-> 4194304, size |-> 2097152, protection |-> 0, shared |-> FALSE] }

\* vm_region_64(task, &address, &size, ...): the first region that ends above
\* address, or KERN_INVALID_ADDRESS when there is none
RECURSIVE VmRegion64(_, _)
VmRegion64(vm, address) ==
    IF vm = <<>> THEN [kr |-> "KERN_INVALID_ADDRESS"]
    ELSE IF Head(vm).address + Head(vm).size > address
    THEN [kr |-> "KERN_SUCCESS", address |-> Head(vm).address,
          size |-> Head(vm).size, info |-> Head(vm)]
    ELSE VmRegion64(Tail(vm), address)

\* as VmPermissions, with private_mapping copied from the shared flag
VmPermissionsSharedAsPrivate(info) ==
    [readable |-> HasProt(info.protection, VM_PROT_READ),
     writable |-> HasProt(info.protection, VM_PROT_WRITE),
     executable |-> HasProt(info.protection, VM_PROT_EXECUTE),
     private_mapping |-> info.shared]

\* Convert VM protection to our MemoryPermissions
VmPermissions(info) ==
    [readable |-> HasProt(info.protection, VM_PROT_READ),
     writable |-> HasProt(info.protection, VM_PROT_WRITE),
     executable |-> HasProt(info.protection, VM_PROT_EXECUTE),
     private_mapping |-> ~info.shared]

\* MemoryRegion region(address, address + size, perms, 0, "00:00", 0, "")
VmMemoryRegion(r) ==
    MemoryRegion(r.address, (r.address + r.size) % WordModulus, VmPermissions(r.info),
                 0, <<"0", "0", ":", "0", "0">>, 0, <<>>, <<>>)

\* as PushVmRegion, with the region put in front of those already pushed
PushVmRegionFront(region, filter, regions) ==
    IF shouldIncludeRegion(filter, region) THEN <<region>> \o regions ELSE regions

\* if (shouldIncludeRegion(region)) regions.push_back(region)
PushVmRegion(region, filter, regions) ==
    IF shouldIncludeRegion(filter, region) THEN Append(regions, region) ELSE regions

\* the while (true) loop, from address: r is what vm_region_64 answered
RECURSIVE EnumerateRegions(_, _, _, _)
RECURSIVE EnumerateFrom(_, _, _, _)
EnumerateFrom(vm, r, filter, regions) ==
    IF r.kr # "KERN_SUCCESS" THEN regions
    ELSE EnumerateRegions(vm, (r.address + r.size) % WordModulus, filter,
                          PushVmRegion(VmMemoryRegion(r), filter, regions))

EnumerateRegions(vm, address, filter, regions) ==
    EnumerateFrom(vm, VmRegion64(vm, address), filter, regions)

\* the vm_region_64 calls the loop makes, the failing last one included
RECURSIVE EnumerateCalls(_, _, _)
RECURSIVE EnumerateCallsFrom(_, _, _)
EnumerateCallsFrom(vm, r, calls) ==
    IF r.kr # "KERN_SUCCESS" THEN calls
    ELSE EnumerateCalls(vm, (r.address + r.size) % WordModulus, calls)

EnumerateCalls(vm, address, calls) ==
    EnumerateCallsFrom(vm, VmRegion64(vm, address), Append(calls, "vm_region_64"))

\* as TaskRefused, with the caller's own process asking for the grant too
TaskRefusedForSelfToo(src, pid) == src.task_for_pid # "KERN_SUCCESS"

\* pid > 0 and task_for_pid did not return KERN_SUCCESS
TaskRefused(src, pid) == pid > 0 /\ src.task_for_pid # "KERN_SUCCESS"

parseMacOSMaps(src, filter, pid) ==
    IF TaskRefused(src, pid)
    THEN ResultError("PERMISSION_DENIED",
                     "Cannot get task for process: " \o ToString(pid))
    ELSE ResultValue(EnumerateRegions(src.vm, 0, filter, <<>>))

\* the system calls the backend makes: task_for_pid for another process, then
\* the enumeration
MacOSSysCalls(src, pid) ==
    IF TaskRefused(src, pid) THEN <<"task_for_pid">>
    ELSE (IF pid > 0 THEN <<"task_for_pid">> ELSE <<>>)
            \o EnumerateCalls(src.vm, 0, <<>>)

(***************************************************************************)
(* The facade: backend selection                                           *)
(***************************************************************************)
\* the build targets: __linux__, __APPLE__, and any other
Platforms == {"linux", "apple", "other"}

\* as isPlatformSupported, true on every target
isPlatformSupportedAlways(platform) == platform \in Platforms

isPlatformSupported(platform) == platform = "linux" \/ platform = "apple"

parseProcess(src, filter, pid) ==
    IF src.platform = "linux" THEN parseLinuxMaps(src, filter, pid)
    ELSE IF src.platform = "apple" THEN parseMacOSMaps(src, filter, pid)
    ELSE ResultError("PLATFORM_NOT_SUPPORTED", "Platform not supported")

\* the system calls parseProcess makes
SysCalls(src, pid) ==
    IF src.platform = "linux" THEN LinuxSysCalls(src)
    ELSE IF src.platform = "apple" THEN MacOSSysCalls(src, pid)
    ELSE <<>>

(***************************************************************************)
(* The query operations of the facade.                                     *)
(***************************************************************************)
\* as ContainingLoop, leaving the loop at the first match
RECURSIVE ContainingLoopFirstOnly(_, _, _)
ContainingLoopFirstOnly(regions, address, matching_regions) ==
    IF regions = <<>> THEN matching_regions
    ELSE IF contains(Head(regions), address)
    THEN Append(matching_regions, Head(regions))
    ELSE ContainingLoopFirstOnly(Tail(regions), address, matching_regions)

\* findRegionsContaining: the loop over parse_result.getValue()
RECURSIVE ContainingLoop(_, _, _)
ContainingLoop(regions, address, matching_regions) ==
    IF regions = <<>> THEN matching_regions
    ELSE IF contains(Head(regions), address)
    THEN ContainingLoop(Tail(regions), address, Append(matching_regions, Head(regions)))
    ELSE ContainingLoop(Tail(regions), address, matching_regions)

\* as ContainingOf, with an error returned when no region holds the address
ContainingOfOrError(parse_result, address) ==
    IF hasError(parse_result) THEN parse_result
    ELSE IF ContainingLoop(parse_result.value_, address, <<>>) = <<>>
    THEN ResultError("PARSE_ERROR", "No region found")
    ELSE ResultValue(ContainingLoop(parse_result.value_, address, <<>>))

\* findRegionsContaining after its parse: an error is passed on as it is
ContainingOf(parse_result, address) ==
    IF hasError(parse_result) THEN parse_result
    ELSE ResultValue(ContainingLoop(parse_result.value_, address, <<>>))

findRegionsContaining(src, filter, address, pid) ==
    ContainingOf(parseProcess(src, filter, pid), address)

\* the calls of MemoryRegion::contains that findRegionsContaining makes
ContainsCallsOf(parse_result, address) ==
    IF hasError(parse_result) THEN {}
    ELSE { [region |-> r, address |-> address, result |-> contains(r, address)] :
           r \in { parse_result.value_[i] : i \in DOMAIN parse_result.value_ } }

ContainsCalls(src, filter, address, pid) ==
    ContainsCallsOf(parseProcess(src, filter, pid), address)

\* as PathMatches, with the substring test taken as a prefix test
PathMatchesPrefix(region, pathname, exact_match) ==
    IF exact_match
    THEN region.pathname_ = pathname
    ELSE Find(region.pathname_, pathname) = 0

\* findRegionsByPath: bool matches = exact_match ? ... : ...
PathMatches(region, pathname, exact_match) ==
    IF exact_match
    THEN region.pathname_ = pathname
    ELSE Find(region.pathname_, pathname) # npos

RECURSIVE PathLoop(_, _, _, _)
PathLoop(regions, pathname, exact_match, matching_regions) ==
    IF regions = <<>> THEN matching_regions
    ELSE IF PathMatches(Head(regions), pathname, exact_match)
    THEN PathLoop(Tail(regions), pathname, exact_match,
                  Append(matching_regions, Head(regions)))
    ELSE PathLoop(Tail(regions), pathname, exact_match, matching_regions)

\* findRegionsByPath after its parse: an error is passed on as it is
ByPathOf(parse_result, pathname, exact_match) ==
    IF hasError(parse_result) THEN parse_result
    ELSE ResultValue(PathLoop(parse_result.value_, pathname, exact_match, <<>>))

findRegionsByPath(src, filter, pathname, pid, exact_match) ==
    ByPathOf(parseProcess(src, filter, pid), pathname, exact_match)

\* as PermissionsMatch, comparing the four flags for equality
PermissionsMatchExact(permissions, region_perms) == permissions = region_perms

\* findRegionsByPermissions: bool matches = true, cleared by any of the four
\* tests; the value after the last test
PermissionsMatch(permissions, region_perms) ==
    IF permissions.readable /\ ~region_perms.readable THEN FALSE
    ELSE IF permissions.writable /\ ~region_perms.writable THEN FALSE
    ELSE IF permissions.executable /\ ~region_perms.executable THEN FALSE
    ELSE IF permissions.private_mapping /\ ~region_perms.private_mapping THEN FALSE
    ELSE TRUE

RECURSIVE PermissionsLoop(_, _, _)
PermissionsLoop(regions, permissions, matching_regions) ==
    IF regions = <<>> THEN matching_regions
    ELSE IF PermissionsMatch(permissions, Head(regions).permissions_)
    THEN PermissionsLoop(Tail(regions), permissions,
                         Append(matching_regions, Head(regions)))
    ELSE PermissionsLoop(Tail(regions), permissions, matching_regions)

\* findRegionsByPermissions after its parse: an error is passed on as it is
ByPermissionsOf(parse_result, permissions) ==
    IF hasError(parse_result) THEN parse_result
    ELSE ResultValue(PermissionsLoop(parse_result.value_, permissions, <<>>))

findRegionsByPermissions(src, filter, permissions, pid) ==
    ByPermissionsOf(parseProcess(src, filter, pid), permissions)

(***************************************************************************)
(* The state machine: one parser, the mapping source it reads, and the     *)
(* caller, which makes one call at a time and then holds what it returned. *)
(***************************************************************************)
VARIABLES
    source,          \* the build target and its mapping source: the maps file
                     \* (why it cannot be opened, or its lines) or the kernel's
                     \* answers (the task_for_pid result and the regions)
    region_filter_,  \* the parser's installed predicate, NoFilter when empty
    filter_calls,    \* history: the predicates passed to setRegionFilter since
                     \* the last clearRegionFilter, the last two of them
    pc,              \* the caller: "idle", or "returned" holding a return value
    call,            \* the operation last called and its arguments
    ret,             \* the Result it returned
    answer,          \* what an operation that returns no Result returned
    contains_calls,  \* the MemoryRegion::contains calls it made
    sys_calls        \* the system calls it made, in order

\* the locals of parseMacOSMaps while its loop is followed one vm_region_64
\* call at a time
VARIABLES
    vm_address,      \* vm_address_t address, the next query address
    vm_regions       \* std::vector<MemoryRegion> regions

loop_vars == <<vm_address, vm_regions>>

\* the HookManager singleton and the threads that call it
VARIABLES
    active_hooks_,   \* the registry: the HookInfo entries, one per hooked address
    hooks_mutex,     \* getHooksMutex(): the thread that holds it, or NoThread
    hook_calls,      \* per thread: where it is in the call it makes, the call's
                     \* arguments and what it returned
    hooked           \* history: the addresses of which a hookFunction returned
                     \* SUCCESS with no unhookFunction returning SUCCESS and no
                     \* cleanup returning since

hook_vars == <<active_hooks_, hooks_mutex, hook_calls, hooked>>

\* the toolkit facade, the Logger singleton and the threads that call
\* initialize and cleanup
VARIABLES
    g_initialized,   \* static std::atomic<bool> g_initialized
    logger,          \* the Logger singleton's fields
    toolkit_calls,   \* per thread: where it is in the call it makes, the call's
                     \* Config and what it returned
    data_race        \* history: two threads accessed tag_ at the same time, one
                     \* of them writing

toolkit_vars == <<g_initialized, logger, toolkit_calls, data_race>>

\* parser instances and the threads that call them, a parse followed one
\* line of the maps file at a time
VARIABLES
    parsers,         \* per ProcessMemoryParser instance: its region_filter_
    parser_calls,    \* per thread: the instance it uses, where it is in the
                     \* call it makes, the call's locals and what it returned
    filter_race      \* history: two threads accessed one region_filter_ at the
                     \* same time, one of them writing

instance_vars == <<parsers, parser_calls, filter_race>>

\* the state no operation of the parser touches
beside_parser == <<hook_vars, toolkit_vars, instance_vars>>
elsewhere == <<loop_vars, beside_parser>>

\* the state the operations of the parser work on
parser_vars ==
    <<source, region_filter_, filter_calls, pc, call, ret, answer, contains_calls,
      sys_calls>>

\* the state no operation of HookManager touches
beside_hooks == <<parser_vars, loop_vars, toolkit_vars, instance_vars>>

\* the state neither the toolkit facade nor HookManager touches
beside_toolkit == <<parser_vars, loop_vars, instance_vars>>

\* the state no operation on a parser instance touches
beside_instances == <<loop_vars, hook_vars, toolkit_vars>>

vars ==
    <<source, region_filter_, filter_calls, pc, call, ret, answer,
      contains_calls, sys_calls, elsewhere>>

\* the loop's locals before the backend is entered
InitLoop ==
    /\ vm_address = 0
    /\ vm_regions = <<>>

\* the threads of a test
Threads == {1, 2}
NoThread == 0

nullptr == "nullptr"

\* a thread that is in no call and has made none
NoHookCall ==
    [pc |-> "idle", op |-> "none", target_address |-> nullptr,
     replace_function |-> nullptr, tag |-> "", status |-> "none",
     found |-> FALSE, engine_calls |-> 0, before |-> {}, concurrent |-> FALSE,
     value |-> [isHooked |-> FALSE, getHookInfo |-> [is_null |-> TRUE],
                getAllHooks |-> {}]]

\* a thread the test does not start
AbsentThread == [NoHookCall EXCEPT !.pc = "absent"]

\* HookManager() = default: an empty registry and a free mutex
InitHookManager ==
    /\ active_hooks_ = {}
    /\ hooks_mutex = NoThread
    /\ hooked = {}

\* a test whose body runs on one thread
InitOneThread == hook_calls = [t \in Threads |-> IF t = 1 THEN NoHookCall ELSE AbsentThread]

\* a test that starts every thread
InitAllThreads == hook_calls = [t \in Threads |-> NoHookCall]

LogLevel == [TRACE |-> 0, DEBUG |-> 1, INFO |-> 2, WARN |-> 3, ERROR |-> 4, FATAL |-> 5]

\* Config{}
DefaultConfig ==
    [app_tag |-> "AnalysisToolkit", log_file_path |-> "", log_level |-> LogLevel.DEBUG,
     enable_console_log |-> TRUE, enable_file_log |-> FALSE,
     enable_hook_manager |-> FALSE, enable_jni_monitoring |-> FALSE]

\* new Logger(): the fields as the member initializers leave them
NewLogger ==
    [tag_ |-> "", min_level_ |-> LogLevel.DEBUG, console_enabled_ |-> TRUE,
     file_enabled_ |-> FALSE, log_file_path_ |-> "", is_open |-> FALSE]

\* a thread that is in no call of the facade and has made none
NoToolkitCall ==
    [pc |-> "idle", op |-> "none", config |-> DefaultConfig, ret |-> "none",
     steps |-> 0, was_initialized |-> FALSE, logger_before |-> NewLogger]

\* the facade before its first call
InitToolkit ==
    /\ g_initialized = FALSE
    /\ logger = NewLogger
    /\ data_race = FALSE

InitToolkitOneThread ==
    toolkit_calls =
        [t \in Threads |-> IF t = 1 THEN NoToolkitCall
                           ELSE [NoToolkitCall EXCEPT !.pc = "absent"]]

InitToolkitAllThreads == toolkit_calls = [t \in Threads |-> NoToolkitCall]

\* the parser instances of a test
ParserIds == {1, 2}

\* a thread that uses the instance and has made no call
NoParserCall(id) ==
    [parser |-> id, pc |-> "idle", op |-> "none", filter |-> "nullptr",
     address |-> 0, index |-> 0, regions |-> <<>>, seen |-> <<>>,
     at_entry |-> "nullptr", installed |-> "nullptr",
     ret |-> [value_ |-> <<>>, error_ |-> "UNKNOWN_ERROR", error_message_ |-> ""],
     crashed |-> FALSE]

\* ProcessMemoryParser() = default, for each instance
InitParsers ==
    /\ parsers = [id \in ParserIds |-> [region_filter_ |-> "nullptr"]]
    /\ filter_race = FALSE

\* each thread has a parser instance of its own
InitOwnParsers == parser_calls = [t \in Threads |-> NoParserCall(t)]

InitElsewhere ==
    /\ InitLoop
    /\ InitHookManager
    /\ InitOneThread
    /\ InitToolkit
    /\ InitToolkitOneThread
    /\ InitParsers
    /\ InitOwnParsers

SeqsUpTo(S, n) == UNION { [1..k -> S] : k \in 0..n }

\* the maps file of a text-backend build
TextSources ==
    { [platform |-> "linux", cause |-> "ok", lines |-> ls] :
         ls \in SeqsUpTo(LineSet, MaxLines) }
        \cup { [platform |-> "linux", cause |-> c, lines |-> <<>>] : c \in OpenCauses }

\* an address space: regions in ascending order that do not overlap
IsAddressSpace(vm) ==
    \A i \in 1 .. Len(vm) - 1 : vm[i].address + vm[i].size <= vm[i + 1].address

\* the kernel of an enumeration-backend build
VmSources ==
    { [platform |-> "apple", task_for_pid |-> kr, vm |-> vm] :
         kr \in {"KERN_SUCCESS", "KERN_FAILURE"},
         vm \in { v \in SeqsUpTo(VmRegionSet, MaxVmRegions) : IsAddressSpace(v) } }

Sources == TextSources \cup VmSources \cup {[platform |-> "other"]}

\* arguments the caller passes
Addresses == {4095, 4096, 5376, 8192, 4194304}
SearchPaths == {EmptyString, PathBin, PathTrue}

NoCall ==
    [op |-> "none", pid |-> -1, address |-> 0, pathname |-> <<>>,
     exact_match |-> FALSE, permissions |-> DefaultPermissions,
     value |-> <<>>, error |-> "SUCCESS", message |-> "", perm_str |-> <<>>]

NoResult == ResultError("UNKNOWN_ERROR", "")

NoAnswer == [kind |-> "none"]

Init ==
    /\ source \in Sources
    /\ region_filter_ = NoFilter
    /\ filter_calls = <<>>
    /\ pc = "idle"
    /\ call = NoCall
    /\ ret = NoResult
    /\ answer = NoAnswer
    /\ contains_calls = {}
    /\ sys_calls = <<>>
    /\ InitElsewhere

ParseProcess(pid) ==
    /\ pc = "idle"
    /\ pc' = "returned"
    /\ call' = [NoCall EXCEPT !.op = "parseProcess", !.pid = pid]
    /\ ret' = parseProcess(source, region_filter_, pid)
    /\ contains_calls' = {}
    /\ sys_calls' = SysCalls(source, pid)
    /\ UNCHANGED <<source, region_filter_, filter_calls, answer, elsewhere>>

FindRegionsContaining(address, pid) ==
    /\ pc = "idle"
    /\ pc' = "returned"
    /\ call' = [NoCall EXCEPT !.op = "findRegionsContaining", !.pid = pid,
                              !.address = address]
    /\ ret' = findRegionsContaining(source, region_filter_, address, pid)
    /\ contains_calls' = ContainsCalls(source, region_filter_, address, pid)
    /\ sys_calls' = SysCalls(source, pid)
    /\ UNCHANGED <<source, region_filter_, filter_calls, answer, elsewhere>>

FindRegionsByPath(pathname, pid, exact_match) ==
    /\ pc = "idle"
    /\ pc' = "returned"
    /\ call' = [NoCall EXCEPT !.op = "findRegionsByPath", !.pid = pid,
                              !.pathname = pathname, !.exact_match = exact_match]
    /\ ret' = findRegionsByPath(source, region_filter_, pathname, pid, exact_match)
    /\ contains_calls' = {}
    /\ sys_calls' = SysCalls(source, pid)
    /\ UNCHANGED <<source, region_filter_, filter_calls, answer, elsewhere>>

FindRegionsByPermissions(permissions, pid) ==
    /\ pc = "idle"
    /\ pc' = "returned"
    /\ call' = [NoCall EXCEPT !.op = "findRegionsByPermissions", !.pid = pid,
                              !.permissions = permissions]
    /\ ret' = findRegionsByPermissions(source, region_filter_, permissions, pid)
    /\ contains_calls' = {}
    /\ sys_calls' = SysCalls(source, pid)
    /\ UNCHANGED <<source, region_filter_, filter_calls, answer, elsewhere>>

IsPlatformSupported ==
    /\ pc = "idle"
    /\ pc' = "returned"
    /\ call' = [NoCall EXCEPT !.op = "isPlatformSupported"]
    /\ answer' = [kind |-> "bool", value |-> isPlatformSupported(source.platform)]
    /\ UNCHANGED <<source, region_filter_, filter_calls, ret, contains_calls,
                   sys_calls,
                   elsewhere>>

\* the history after one more setRegionFilter(filter)
Installed(calls, filter) ==
    IF calls = <<>> THEN <<filter>> ELSE <<calls[Len(calls)], filter>>

\* as SetRegionFilter, with a predicate already installed left in place
SetRegionFilterKeepsFirst(filter) ==
    /\ pc = "idle"
    /\ region_filter_' = IF region_filter_ = NoFilter THEN filter ELSE region_filter_
    /\ filter_calls' = Installed(filter_calls, filter)
    /\ UNCHANGED <<source, pc, call, ret, answer, contains_calls, sys_calls,
                   elsewhere>>

SetRegionFilter(filter) ==
    /\ pc = "idle"
    /\ region_filter_' = filter
    /\ filter_calls' = Installed(filter_calls, filter)
    /\ UNCHANGED <<source, pc, call, ret, answer, contains_calls, sys_calls,
                   elsewhere>>

ClearRegionFilter ==
    /\ pc = "idle"
    /\ region_filter_' = NoFilter
    /\ filter_calls' = <<>>
    /\ UNCHANGED <<source, pc, call, ret, answer, contains_calls, sys_calls,
                   elsewhere>>

\* the caller is done with what was returned and drops it
DropResult ==
    /\ pc = "returned"
    /\ pc' = "idle"
    /\ call' = NoCall
    /\ ret' = NoResult
    /\ answer' = NoAnswer
    /\ contains_calls' = {}
    /\ sys_calls' = <<>>
    /\ UNCHANGED <<source, region_filter_, filter_calls, elsewhere>>

Next ==
    \/ \E pid \in Pids : ParseProcess(pid)
    \/ \E address \in Addresses, pid \in Pids : FindRegionsContaining(address, pid)
    \/ \E pathname \in SearchPaths, pid \in Pids, exact_match \in BOOLEAN :
          FindRegionsByPath(pathname, pid, exact_match)
    \/ \E permissions \in PermissionValues, pid \in Pids :
          FindRegionsByPermissions(permissions, pid)
    \/ IsPlatformSupported
    \/ \E filter \in Filters : SetRegionFilter(filter)
    \/ ClearRegionFilter
    \/ DropResult

Spec == Init /\ [][Next]_vars

(***************************************************************************)
(* The Result class on its own: the caller builds a Result with either     *)
(* constructor and reads its payload.                                      *)
(***************************************************************************)
\* payloads: vectors of the regions the maps lines yield
PayloadRegions ==
    { MapsLineTable[l].value : l \in { k \in LineSet : MapsLineTable[k].has_value } }
Payloads == SeqsUpTo(PayloadRegions, MaxLines)

\* messages given to the error constructor: its default, the test's, the backends'
Messages == {"", "Test error", "Process not found: 1", "Platform not supported"}

\* a caller that has made no call yet and uses no mapping source
\* a parser nobody has called
IdleCaller ==
    /\ source = [platform |-> "other"]
    /\ region_filter_ = NoFilter
    /\ filter_calls = <<>>
    /\ pc = "idle"
    /\ call = NoCall
    /\ ret = NoResult
    /\ answer = NoAnswer
    /\ contains_calls = {}
    /\ sys_calls = <<>>

InitCaller ==
    /\ IdleCaller
    /\ InitElsewhere

\* Result(T&& value)
ConstructValue(value) ==
    /\ pc = "idle"
    /\ pc' = "returned"
    /\ call' = [NoCall EXCEPT !.op = "Result(value)", !.value = value]
    /\ ret' = ResultValue(value)
    /\ UNCHANGED <<source, region_filter_, filter_calls, answer, contains_calls,
                   sys_calls,
                   elsewhere>>

\* Result(ErrorCode error, const std::string& message)
ConstructError(error, message) ==
    /\ pc = "idle"
    /\ pc' = "returned"
    /\ call' = [NoCall EXCEPT !.op = "Result(error, message)", !.error = error,
                              !.message = message]
    /\ ret' = ResultError(error, message)
    /\ UNCHANGED <<source, region_filter_, filter_calls, answer, contains_calls,
                   sys_calls,
                   elsewhere>>

\* the caller reads the payload of the Result it holds
GetValue ==
    /\ pc = "returned"
    /\ answer = NoAnswer
    /\ answer' = getValue(ret)
    /\ UNCHANGED <<source, region_filter_, filter_calls, pc, call, ret,
                   contains_calls, sys_calls,
                   elsewhere>>

NextResult ==
    \/ \E value \in Payloads : ConstructValue(value)
    \/ \E error \in ErrorCodes, message \in Messages : ConstructError(error, message)
    \/ GetValue
    \/ DropResult

SpecResult == InitCaller /\ [][NextResult]_vars

(***************************************************************************)
(* MemoryPermissions on its own: the caller converts permission values to  *)
(* strings and strings to permission values.                               *)
(***************************************************************************)
\* characters of the strings given to fromString: the eight of the canonical
\* form and one outside it
PermChars == {"r", "w", "x", "p", "s", "-", "R"}
PermStrings == SeqsUpTo(PermChars, MaxPermLen)

\* perms.toString()
ToStringCall(perms) ==
    /\ pc = "idle"
    /\ pc' = "returned"
    /\ call' = [NoCall EXCEPT !.op = "toString", !.permissions = perms]
    /\ answer' = [kind |-> "string", value |-> toString(perms)]
    /\ UNCHANGED <<source, region_filter_, filter_calls, ret, contains_calls,
                   sys_calls,
                   elsewhere>>

\* MemoryPermissions::fromString(perm_str)
FromStringCall(perm_str) ==
    /\ pc = "idle"
    /\ pc' = "returned"
    /\ call' = [NoCall EXCEPT !.op = "fromString", !.perm_str = perm_str]
    /\ answer' = [kind |-> "permissions", value |-> fromString(perm_str)]
    /\ UNCHANGED <<source, region_filter_, filter_calls, ret, contains_calls,
                   sys_calls,
                   elsewhere>>

\* MemoryPermissions::fromString(perms.toString()): the string toString
\* returned is parsed back
FromToString ==
    /\ pc = "returned"
    /\ call.op = "toString"
    /\ call' = [call EXCEPT !.op = "fromString(toString)", !.perm_str = answer.value]
    /\ answer' = [kind |-> "permissions", value |-> fromString(answer.value)]
    /\ UNCHANGED <<source, region_filter_, filter_calls, pc, ret, contains_calls,
                   sys_calls,
                   elsewhere>>

\* the arguments an idle caller chooses from; a caller that holds a return
\* value makes no call
Arguments(S) == IF pc = "idle" THEN S ELSE {}

NextPermissions ==
    \/ \E perms \in Arguments(PermissionValues) : ToStringCall(perms)
    \/ \E perm_str \in Arguments(PermStrings) : FromStringCall(perm_str)
    \/ FromToString
    \/ DropResult

SpecPermissions == InitCaller /\ [][NextPermissions]_vars

(***************************************************************************)
(* The enumeration backend one vm_region_64 call at a time: the caller     *)
(* enters parseProcess, the loop queries the kernel from address, pushes   *)
(* the region it is given and moves address by the region's size, and the  *)
(* call returns at the first query the kernel does not answer.             *)
(***************************************************************************)
\* pushed regions the loop is followed for
MaxEnumerated == 4

\* the last page of the address range
VmRegionTop ==
    [address |-> WordModulus - 4096, size |-> 4096,
     protection |-> VM_PROT_READ, shared |-> FALSE]

\* the kernel of an enumeration-backend build whose address space may reach
\* the top of the address range
TaskSources ==
    { [platform |-> "apple", task_for_pid |-> kr, vm |-> vm] :
         kr \in {"KERN_SUCCESS", "KERN_FAILURE"},
         vm \in { v \in SeqsUpTo(VmRegionSet \cup {VmRegionTop}, MaxVmRegions) :
                     IsAddressSpace(v) } }

InitEnumeration ==
    /\ source \in TaskSources
    /\ region_filter_ \in Filters \cup {NoFilter}
    /\ filter_calls = <<>>
    /\ pc = "idle"
    /\ call = NoCall
    /\ ret = NoResult
    /\ answer = NoAnswer
    /\ contains_calls = {}
    /\ sys_calls = <<>>
    /\ InitElsewhere

\* parseMacOSMaps up to the loop: the task port, then address = 0 and an
\* empty vector
EnterParseMacOSMaps(pid) ==
    /\ pc = "idle"
    /\ call' = [NoCall EXCEPT !.op = "parseProcess", !.pid = pid]
    /\ IF TaskRefused(source, pid)
       THEN /\ pc' = "returned"
            /\ ret' = ResultError("PERMISSION_DENIED",
                                  "Cannot get task for process: " \o ToString(pid))
            /\ sys_calls' = <<"task_for_pid">>
       ELSE /\ pc' = "vm_region_64"
            /\ ret' = NoResult
            /\ sys_calls' = IF pid > 0 THEN <<"task_for_pid">> ELSE <<>>
    /\ vm_address' = 0
    /\ vm_regions' = <<>>
    /\ UNCHANGED <<source, region_filter_, filter_calls, answer, contains_calls,
                   beside_parser>>

\* address += size, in vm_address_t
NextAddress(r) == (r.address + r.size) % WordModulus

\* one pass of the loop body, r being the answer of vm_region_64
LoopBody(r) ==
    /\ r.kr = "KERN_SUCCESS"
    /\ vm_regions' = PushVmRegion(VmMemoryRegion(r), region_filter_, vm_regions)
    /\ vm_address' = NextAddress(r)

\* vm_region_64 answered with a region: push it and move on
VmRegionFound ==
    /\ pc = "vm_region_64"
    /\ Len(vm_regions) < MaxEnumerated
    /\ LoopBody(VmRegion64(source.vm, vm_address))
    /\ sys_calls' = <<"vm_region_64">>
    /\ UNCHANGED <<source, region_filter_, filter_calls, pc, call, ret, answer,
                   contains_calls, beside_parser>>

\* if (kr != KERN_SUCCESS) break; return Result(std::move(regions))
VmRegionNotFound ==
    /\ pc = "vm_region_64"
    /\ VmRegion64(source.vm, vm_address).kr # "KERN_SUCCESS"
    /\ pc' = "returned"
    /\ ret' = ResultValue(vm_regions)
    /\ sys_calls' = <<"vm_region_64">>
    /\ UNCHANGED <<source, region_filter_, filter_calls, call, answer,
                   contains_calls, elsewhere>>

NextEnumeration ==
    \/ \E pid \in Arguments(Pids) : EnterParseMacOSMaps(pid)
    \/ VmRegionFound
    \/ VmRegionNotFound

SpecEnumeration == InitEnumeration /\ [][NextEnumeration]_vars

\* the thread that entered parseProcess keeps running
SpecEnumerationFair ==
    SpecEnumeration /\ WF_vars(VmRegionFound) /\ WF_vars(VmRegionNotFound)

(***************************************************************************)
(* HookManager: the registry of hooks, the mutex that guards it, the hook  *)
(* engine behind it, and the threads that call it.  A call that takes the  *)
(* mutex is followed one step at a time: taking the mutex, the registry    *)
(* lookup, the engine call, the registry update with the return.           *)
(***************************************************************************)
\* the addresses a test passes: a null pointer, one no loaded image holds,
\* and two functions
HookAddresses == {nullptr, "0x1", "original_test_function", "counting_function"}

\* dladdr(address, &info): 0 when no loaded image holds the address
dladdr(a) ==
    IF a \in {"original_test_function", "counting_function"}
    THEN [result |-> 1, dli_fname |-> "test_inline_hook"]
    ELSE [result |-> 0, dli_fname |-> nullptr]

\* the replacement and the tag a test passes with the address
HookArguments ==
    { [replace_function |-> "hooked_test_function", tag |-> "test_hook"],
      [replace_function |-> "counting_hook_function", tag |-> "duplicate_hook"] }

\* what DobbyHook and DobbyDestroy return: 0, or an error code
DobbyResults == {0, -1}

\* what DobbyHook stores through original_function
Trampoline(a) == <<"trampoline", a>>

HookStatuses ==
    {"SUCCESS", "FAILED", "ALREADY_HOOKED", "INVALID_ADDRESS", "SYMBOL_NOT_FOUND"}

\* as isValidAddress, with the null pointer alone refused
isValidAddressNonNull(a) == a # nullptr

\* HookManager::isValidAddress
isValidAddress(a) ==
    IF a = nullptr THEN FALSE ELSE dladdr(a).result # 0

\* active_hooks_.find(target_address): the entries under that key
FindHook(hooks, a) == { h \in hooks : h.target_address = a }

\* it != active_hooks_.end() && it->second->is_active
IsActive(hooks, a) == \E h \in FindHook(hooks, a) : h.is_active

\* the HookInfo hookFunction builds
NewHookInfo(c) ==
    [target_address |-> c.target_address,
     replace_function |-> c.replace_function,
     original_function |-> Trampoline(c.target_address),
     type |-> "FUNCTION_INLINE",
     symbol_name |-> c.tag,
     library_name |-> IF dladdr(c.target_address).result # 0
                      THEN dladdr(c.target_address).dli_fname ELSE "",
     is_active |-> TRUE]

\* active_hooks_[target_address] = std::move(hook_info)
Inserted(hooks, info) == (hooks \ FindHook(hooks, info.target_address)) \cup {info}

\* as Erased, with the registry left as it is
ErasedNothing(hooks, a) == hooks

\* active_hooks_.erase(it)
Erased(hooks, a) == hooks \ FindHook(hooks, a)

\* active_hooks_.clear()
Cleared(hooks) == {}

\* HookManager::isHooked
isHooked(hooks, a) == IsActive(hooks, a)

\* a HookInfo*: null, or pointing at an entry of the registry
NullHookInfo == [is_null |-> TRUE]
PointerTo(h) == [is_null |-> FALSE, pointee |-> h]

\* HookManager::getHookInfo: the entry, or nullptr
getHookInfo(hooks, a) ==
    IF FindHook(hooks, a) # {}
    THEN PointerTo(CHOOSE h \in FindHook(hooks, a) : TRUE)
    ELSE NullHookInfo

\* HookManager::getAllHooks: the active entries
getAllHooks(hooks) == { h \in hooks : h.is_active }

\* as Unlocked, with the mutex never seen as held
UnlockedAlways(mutex) == TRUE

\* std::lock_guard<std::mutex> lock(getHooksMutex()) can be taken
Unlocked(mutex) == mutex = NoThread

\* the thread is in no call
CanCall(t) == hook_calls[t].pc \in {"idle", "returned"}

\* the thread is inside hookFunction for the address
InHookFunction(u, a) ==
    /\ hook_calls[u].op = "hookFunction"
    /\ hook_calls[u].target_address = a
    /\ hook_calls[u].pc \notin {"absent", "idle", "returned"}

\* the call the thread enters
NewHookCall(op, a, args) ==
    [NoHookCall EXCEPT !.op = op, !.target_address = a,
                       !.replace_function = args.replace_function,
                       !.tag = args.tag, !.before = active_hooks_]

\* the call returns status
ReturnStatus(c, status) == [c EXCEPT !.pc = "returned", !.status = status]

\* hookFunction up to the lock: the address check
HookFunction(t, a, args) ==
    /\ CanCall(t)
    /\ hook_calls' =
          [u \in Threads |->
             IF u = t
             THEN IF ~isValidAddress(a)
                  THEN ReturnStatus(NewHookCall("hookFunction", a, args),
                                    "INVALID_ADDRESS")
                  ELSE [NewHookCall("hookFunction", a, args) EXCEPT
                           !.pc = "lock",
                           !.concurrent = /\ ~IsActive(active_hooks_, a)
                                          /\ \E v \in Threads \ {t} :
                                                InHookFunction(v, a)]
             ELSE IF /\ isValidAddress(a)
                     /\ ~IsActive(active_hooks_, a)
                     /\ InHookFunction(u, a)
                  THEN [hook_calls[u] EXCEPT !.concurrent = TRUE]
                  ELSE hook_calls[u]]
    /\ UNCHANGED <<active_hooks_, hooks_mutex, hooked, beside_hooks>>

\* unhookFunction and cleanup up to the lock
UnhookFunction(t, a) ==
    /\ CanCall(t)
    /\ hook_calls' =
          [hook_calls EXCEPT
              ![t] = [NewHookCall("unhookFunction", a, [replace_function |-> nullptr,
                                                        tag |-> ""])
                         EXCEPT !.pc = "lock"]]
    /\ UNCHANGED <<active_hooks_, hooks_mutex, hooked, beside_hooks>>

Cleanup(t) ==
    /\ CanCall(t)
    /\ hook_calls' =
          [hook_calls EXCEPT
              ![t] = [NewHookCall("cleanup", nullptr, [replace_function |-> nullptr,
                                                       tag |-> ""])
                         EXCEPT !.pc = "lock"]]
    /\ UNCHANGED <<active_hooks_, hooks_mutex, hooked, beside_hooks>>

\* std::lock_guard<std::mutex> lock(getHooksMutex())
Lock(t) ==
    /\ hook_calls[t].pc = "lock"
    /\ Unlocked(hooks_mutex)
    /\ hooks_mutex' = t
    /\ hook_calls' =
          [hook_calls EXCEPT
              ![t].pc = IF hook_calls[t].op = "cleanup" THEN "clear" ELSE "find"]
    /\ UNCHANGED <<active_hooks_, hooked, beside_hooks>>

\* hookFunction: the lookup, and ALREADY_HOOKED when it finds an active entry
HookFind(t) ==
    /\ hook_calls[t].pc = "find"
    /\ hook_calls[t].op = "hookFunction"
    /\ IF IsActive(active_hooks_, hook_calls[t].target_address)
       THEN /\ hook_calls' =
                  [hook_calls EXCEPT
                      ![t] = ReturnStatus([hook_calls[t] EXCEPT !.found = TRUE],
                                          "ALREADY_HOOKED")]
            /\ hooks_mutex' = NoThread
       ELSE /\ hook_calls' = [hook_calls EXCEPT ![t].pc = "DobbyHook"]
            /\ UNCHANGED hooks_mutex
    /\ UNCHANGED <<active_hooks_, hooked, beside_hooks>>

\* hookFunction: DobbyHook, and FAILED when it does not return 0
HookEngine(t, result) ==
    /\ hook_calls[t].pc = "DobbyHook"
    /\ IF result # 0
       THEN /\ hook_calls' =
                  [hook_calls EXCEPT
                      ![t] = ReturnStatus(
                                [hook_calls[t] EXCEPT
                                    !.engine_calls = hook_calls[t].engine_calls + 1],
                                "FAILED")]
            /\ hooks_mutex' = NoThread
       ELSE /\ hook_calls' =
                  [hook_calls EXCEPT
                      ![t].pc = "insert",
                      ![t].engine_calls = hook_calls[t].engine_calls + 1]
            /\ UNCHANGED hooks_mutex
    /\ UNCHANGED <<active_hooks_, hooked, beside_hooks>>

\* hookFunction: the entry is built and stored, SUCCESS
HookInsert(t) ==
    /\ hook_calls[t].pc = "insert"
    /\ active_hooks_' = Inserted(active_hooks_, NewHookInfo(hook_calls[t]))
    /\ hooked' = hooked \cup {hook_calls[t].target_address}
    /\ hook_calls' = [hook_calls EXCEPT ![t] = ReturnStatus(hook_calls[t], "SUCCESS")]
    /\ hooks_mutex' = NoThread
    /\ UNCHANGED <<beside_hooks>>

\* unhookFunction: the lookup, and FAILED when there is no entry
UnhookFind(t) ==
    /\ hook_calls[t].pc = "find"
    /\ hook_calls[t].op = "unhookFunction"
    /\ IF FindHook(active_hooks_, hook_calls[t].target_address) = {}
       THEN /\ hook_calls' =
                  [hook_calls EXCEPT ![t] = ReturnStatus(hook_calls[t], "FAILED")]
            /\ hooks_mutex' = NoThread
       ELSE /\ hook_calls' =
                  [hook_calls EXCEPT ![t].pc = "DobbyDestroy", ![t].found = TRUE]
            /\ UNCHANGED hooks_mutex
    /\ UNCHANGED <<active_hooks_, hooked, beside_hooks>>

\* unhookFunction: DobbyDestroy, and FAILED when it does not return 0
UnhookEngine(t, result) ==
    /\ hook_calls[t].pc = "DobbyDestroy"
    /\ IF result # 0
       THEN /\ hook_calls' =
                  [hook_calls EXCEPT
                      ![t] = ReturnStatus(
                                [hook_calls[t] EXCEPT
                                    !.engine_calls = hook_calls[t].engine_calls + 1],
                                "FAILED")]
            /\ hooks_mutex' = NoThread
       ELSE /\ hook_calls' =
                  [hook_calls EXCEPT
                      ![t].pc = "erase",
                      ![t].engine_calls = hook_calls[t].engine_calls + 1]
            /\ UNCHANGED hooks_mutex
    /\ UNCHANGED <<active_hooks_, hooked, beside_hooks>>

\* unhookFunction: the entry is erased, SUCCESS
UnhookErase(t) ==
    /\ hook_calls[t].pc = "erase"
    /\ active_hooks_' = Erased(active_hooks_, hook_calls[t].target_address)
    /\ hooked' = hooked \ {hook_calls[t].target_address}
    /\ hook_calls' = [hook_calls EXCEPT ![t] = ReturnStatus(hook_calls[t], "SUCCESS")]
    /\ hooks_mutex' = NoThread
    /\ UNCHANGED <<beside_hooks>>

\* cleanup: DobbyDestroy for every active entry, whatever it returns, then
\* the registry is cleared
CleanupClear(t) ==
    /\ hook_calls[t].pc = "clear"
    /\ active_hooks_' = Cleared(active_hooks_)
    /\ hooked' = {}
    /\ hook_calls' =
          [hook_calls EXCEPT
              ![t] = ReturnStatus(
                        [hook_calls[t] EXCEPT
                            !.engine_calls = Cardinality(getAllHooks(active_hooks_))],
                        "void")]
    /\ hooks_mutex' = NoThread
    /\ UNCHANGED <<beside_hooks>>

\* isHooked, getHookInfo and getAllHooks: the mutex is taken, the registry
\* read and the mutex released
HookQueries(t, a) ==
    /\ CanCall(t)
    /\ Unlocked(hooks_mutex)
    /\ hook_calls' =
          [hook_calls EXCEPT
              ![t] = [NoHookCall EXCEPT
                         !.pc = "returned", !.op = "queries", !.target_address = a,
                         !.before = active_hooks_,
                         !.value = [isHooked |-> isHooked(active_hooks_, a),
                                    getHookInfo |-> getHookInfo(active_hooks_, a),
                                    getAllHooks |-> getAllHooks(active_hooks_)]]]
    /\ UNCHANGED <<active_hooks_, hooks_mutex, hooked, beside_hooks>>

NextHooks ==
    \E t \in Threads :
        \/ \E a \in HookAddresses, args \in HookArguments : HookFunction(t, a, args)
        \/ \E a \in HookAddresses : UnhookFunction(t, a)
        \/ Cleanup(t)
        \/ Lock(t)
        \/ HookFind(t)
        \/ \E result \in DobbyResults : HookEngine(t, result)
        \/ HookInsert(t)
        \/ UnhookFind(t)
        \/ \E result \in DobbyResults : UnhookEngine(t, result)
        \/ UnhookErase(t)
        \/ CleanupClear(t)
        \/ \E a \in HookAddresses : HookQueries(t, a)

\* the calls of one thread, as a test body makes them
SpecHooks == InitCaller /\ [][NextHooks]_vars

InitHookThreads ==
    /\ IdleCaller
    /\ InitLoop
    /\ InitHookManager
    /\ InitAllThreads
    /\ InitToolkit
    /\ InitToolkitOneThread
    /\ InitParsers
    /\ InitOwnParsers

\* the address the threads of a test contend for
SharedAddresses == {"original_test_function"}

NextHookThreads ==
    \E t \in Threads :
        \/ \E a \in SharedAddresses, args \in HookArguments : HookFunction(t, a, args)
        \/ \E a \in SharedAddresses : UnhookFunction(t, a)
        \/ Cleanup(t)
        \/ Lock(t)
        \/ HookFind(t)
        \/ \E result \in DobbyResults : HookEngine(t, result)
        \/ HookInsert(t)
        \/ UnhookFind(t)
        \/ \E result \in DobbyResults : UnhookEngine(t, result)
        \/ UnhookErase(t)
        \/ CleanupClear(t)

\* the calls of two threads on one address
SpecHookThreads == InitHookThreads /\ [][NextHookThreads]_vars

(***************************************************************************)
(* The toolkit facade: initialize, cleanup and isInitialized over the      *)
(* g_initialized flag, with Logger::initialize followed field by field.    *)
(* The assignment to tag_ takes two steps, its start and its end, so that  *)
(* an access of another thread can fall between them.                      *)
(***************************************************************************)
\* the Configs a test passes; enable_jni_monitoring is the field initialize
\* reads before it initializes the Monitor
Configs ==
    { [DefaultConfig EXCEPT !.app_tag = "FirstInit"],
      [DefaultConfig EXCEPT !.app_tag = "SecondInit", !.log_level = LogLevel.INFO,
                            !.enable_hook_manager = TRUE],
      [DefaultConfig EXCEPT !.app_tag = "", !.log_file_path = "/tmp/test.log",
                            !.enable_file_log = TRUE],
      [DefaultConfig EXCEPT !.app_tag = "Monitored", !.enable_jni_monitoring = TRUE] }

\* the Configs the threads of a test pass
SharedConfigs ==
    { DefaultConfig, [DefaultConfig EXCEPT !.app_tag = "ThreadSafetyTest"] }

\* as AlreadyInitialized, with the flag never seen as set
AlreadyInitializedNever(flag) == FALSE

\* if (g_initialized.load()) return true
AlreadyInitialized(flag) == flag

\* tag.empty() ? "AnalysisToolkit" : tag
TagOf(tag) == IF tag = "" THEN "AnalysisToolkit" ELSE tag

\* config.enable_file_log ? config.log_file_path : ""
FilePathOf(config) == IF config.enable_file_log THEN config.log_file_path ELSE ""

\* writeLog(level, message) reads tag_: the level passes and a sink is on
ReadsTag(lg, level) ==
    /\ level >= lg.min_level_
    /\ lg.console_enabled_ \/ (lg.file_enabled_ /\ lg.is_open)

\* another thread is in the middle of the assignment to tag_
MidWrite(t) == \E u \in Threads \ {t} : toolkit_calls[u].pc = "tag_writing"

\* logger->info(...) or logger->error(...) while another thread assigns tag_
RacingLog(t, level) == ReadsTag(logger, level) /\ MidWrite(t)

CanCallToolkit(t) == toolkit_calls[t].pc \in {"idle", "returned"}

NewToolkitCall(op, config) ==
    [NoToolkitCall EXCEPT !.op = op, !.config = config,
                          !.was_initialized = g_initialized,
                          !.logger_before = logger]

\* a bool as the caller holds it
Bool(b) == IF b THEN "true" ELSE "false"

ReturnValue(c, value) == [c EXCEPT !.pc = "returned", !.ret = value]

\* initialize(config) up to Logger::initialize
Initialize(t, config) ==
    /\ CanCallToolkit(t)
    /\ toolkit_calls' =
          [toolkit_calls EXCEPT
              ![t] = IF AlreadyInitialized(g_initialized)
                     THEN ReturnValue(NewToolkitCall("initialize", config), Bool(TRUE))
                     ELSE [NewToolkitCall("initialize", config) EXCEPT !.pc = "tag_"]]
    /\ UNCHANGED <<g_initialized, logger, data_race, hook_vars, beside_toolkit>>

\* Logger::initialize: the assignment to tag_ starts
TagAssign(t) ==
    /\ toolkit_calls[t].pc = "tag_"
    /\ toolkit_calls' =
          [toolkit_calls EXCEPT ![t].pc = "tag_writing",
                                ![t].steps = toolkit_calls[t].steps + 1]
    /\ data_race' = (data_race \/ MidWrite(t))
    /\ UNCHANGED <<g_initialized, logger, hook_vars, beside_toolkit>>

\* Logger::initialize: the assignment to tag_ ends, min_level_ and
\* console_enabled_ are stored
TagAssigned(t) ==
    /\ toolkit_calls[t].pc = "tag_writing"
    /\ logger' = [logger EXCEPT
                     !.tag_ = TagOf(toolkit_calls[t].config.app_tag),
                     !.min_level_ = toolkit_calls[t].config.log_level,
                     !.console_enabled_ = toolkit_calls[t].config.enable_console_log]
    /\ toolkit_calls' =
          [toolkit_calls EXCEPT
              ![t].pc = IF FilePathOf(toolkit_calls[t].config) # ""
                        THEN "setLogFile" ELSE "info"]
    /\ UNCHANGED <<g_initialized, data_race, hook_vars, beside_toolkit>>

\* Logger::setLogFile under file_mutex_, opened being whether the stream is
\* open afterwards; initialize returns false when it is not
SetLogFile(t, opened) ==
    /\ toolkit_calls[t].pc = "setLogFile"
    /\ logger' = [logger EXCEPT
                     !.log_file_path_ = FilePathOf(toolkit_calls[t].config),
                     !.is_open = opened,
                     !.file_enabled_ = opened]
    /\ toolkit_calls' =
          [toolkit_calls EXCEPT
              ![t] = IF opened THEN [toolkit_calls[t] EXCEPT !.pc = "info"]
                     ELSE ReturnValue(toolkit_calls[t], Bool(FALSE))]
    /\ UNCHANGED <<g_initialized, data_race, hook_vars, beside_toolkit>>

\* logger->info("AnalysisToolkit initializing...")
LogInitializing(t) ==
    /\ toolkit_calls[t].pc = "info"
    /\ toolkit_calls' = [toolkit_calls EXCEPT ![t].pc = "managers"]
    /\ data_race' = (data_race \/ RacingLog(t, LogLevel.INFO))
    /\ UNCHANGED <<g_initialized, logger, hook_vars, beside_toolkit>>

\* HookManager::initialize, which returns true, and the Monitor's
\* initialize when the Config asks for it, monitor being what it returns
InitializeManagers(t, monitor) ==
    /\ toolkit_calls[t].pc = "managers"
    /\ toolkit_calls' =
          [toolkit_calls EXCEPT
              ![t] = IF toolkit_calls[t].config.enable_jni_monitoring /\ ~monitor
                     THEN ReturnValue(toolkit_calls[t], Bool(FALSE))
                     ELSE [toolkit_calls[t] EXCEPT !.pc = "store"]]
    /\ data_race' = (data_race \/ RacingLog(t, LogLevel.INFO))
    /\ UNCHANGED <<g_initialized, logger, hook_vars, beside_toolkit>>

\* g_initialized.store(true); return true
StoreInitialized(t) ==
    /\ toolkit_calls[t].pc = "store"
    /\ g_initialized' = TRUE
    /\ toolkit_calls' = [toolkit_calls EXCEPT ![t] = ReturnValue(toolkit_calls[t], Bool(TRUE))]
    /\ data_race' = (data_race \/ RacingLog(t, LogLevel.INFO))
    /\ UNCHANGED <<logger, hook_vars, beside_toolkit>>

\* cleanup() up to the check of the flag
ToolkitCleanup(t) ==
    /\ CanCallToolkit(t)
    /\ toolkit_calls' =
          [toolkit_calls EXCEPT
              ![t] = IF g_initialized
                     THEN [NewToolkitCall("cleanup", DefaultConfig) EXCEPT
                              !.pc = "cleaning"]
                     ELSE ReturnValue(NewToolkitCall("cleanup", DefaultConfig), "void")]
    /\ UNCHANGED <<g_initialized, logger, data_race, hook_vars, beside_toolkit>>

\* cleanup(): the managers are cleaned up, the log flushed and the flag
\* stored false
CleanupManagers(t) ==
    /\ toolkit_calls[t].pc = "cleaning"
    /\ Unlocked(hooks_mutex)
    /\ active_hooks_' = Cleared(active_hooks_)
    /\ hooked' = {}
    /\ g_initialized' = FALSE
    /\ toolkit_calls' =
          [toolkit_calls EXCEPT
              ![t] = ReturnValue([toolkit_calls[t] EXCEPT
                                     !.steps = toolkit_calls[t].steps + 1], "void")]
    /\ data_race' = (data_race \/ RacingLog(t, LogLevel.INFO))
    /\ UNCHANGED <<logger, hooks_mutex, hook_calls, beside_toolkit>>

\* isInitialized()
IsInitialized(t) ==
    /\ CanCallToolkit(t)
    /\ toolkit_calls' =
          [toolkit_calls EXCEPT
              ![t] = ReturnValue(NewToolkitCall("isInitialized", DefaultConfig),
                                 Bool(g_initialized))]
    /\ UNCHANGED <<g_initialized, logger, data_race, hook_vars, beside_toolkit>>

\* what a call can come to once tag_ has been accessed in a data race
UndefinedOutcomes == {"true", "false", "crashed"}

\* after a data race the behaviour of the program is undefined: a call in
\* progress may end in any way
UndefinedBehaviour(t, outcome) ==
    /\ data_race
    /\ toolkit_calls[t].pc \notin {"absent", "idle", "returned"}
    /\ toolkit_calls' = [toolkit_calls EXCEPT ![t] = ReturnValue(toolkit_calls[t], outcome)]
    /\ UNCHANGED <<g_initialized, logger, data_race, hook_vars, beside_toolkit>>

NextToolkit ==
    \E t \in Threads :
        \/ \E config \in Configs : Initialize(t, config)
        \/ TagAssign(t)
        \/ TagAssigned(t)
        \/ \E opened \in BOOLEAN : SetLogFile(t, opened)
        \/ LogInitializing(t)
        \/ \E monitor \in BOOLEAN : InitializeManagers(t, monitor)
        \/ StoreInitialized(t)
        \/ ToolkitCleanup(t)
        \/ CleanupManagers(t)
        \/ IsInitialized(t)

\* the calls of one thread, as a test body makes them
SpecToolkit == InitCaller /\ [][NextToolkit]_vars

InitToolkitThreads ==
    /\ IdleCaller
    /\ InitLoop
    /\ InitHookManager
    /\ InitOneThread
    /\ InitToolkit
    /\ InitToolkitAllThreads
    /\ InitParsers
    /\ InitOwnParsers

NextToolkitThreads ==
    \E t \in Threads :
        \/ \E config \in SharedConfigs : Initialize(t, config)
        \/ TagAssign(t)
        \/ TagAssigned(t)
        \/ LogInitializing(t)
        \/ \E monitor \in BOOLEAN : InitializeManagers(t, monitor)
        \/ StoreInitialized(t)
        \/ \E outcome \in UndefinedOutcomes : UndefinedBehaviour(t, outcome)

\* the threads of a test calling initialize at the same time
SpecToolkitThreads == InitToolkitThreads /\ [][NextToolkitThreads]_vars

(***************************************************************************)
(* Parser instances used by two threads without synchronisation.  Each     *)
(* thread uses one instance, its own or the one the other thread uses too. *)
(* A parse is followed one line at a time, the filter field being read for *)
(* each line that yields a region; the assignment to the field takes two   *)
(* steps, its start and its end.                                           *)
(***************************************************************************)
\* the maps files the threads parse
SharedSources ==
    { [platform |-> "linux", cause |-> "ok", lines |-> ls] :
         ls \in { <<LineScenarioA, LineScenarioA>>, <<LineJunk, LineAnon>>,
                  <<LineScenarioA>> } }

\* the address the threads look up
SharedLookups == {4096}

\* the instance each thread uses: its own, or the first one for both
ParserUses == { [t \in Threads |-> t], [t \in Threads |-> 1] }

InitParserThreads ==
    /\ source \in SharedSources
    /\ region_filter_ = NoFilter
    /\ filter_calls = <<>>
    /\ pc = "idle"
    /\ call = NoCall
    /\ ret = NoResult
    /\ answer = NoAnswer
    /\ contains_calls = {}
    /\ sys_calls = <<>>
    /\ InitLoop
    /\ InitHookManager
    /\ InitOneThread
    /\ InitToolkit
    /\ InitToolkitOneThread
    /\ InitParsers
    /\ parser_calls \in { [t \in Threads |-> NoParserCall(uses[t])] : uses \in ParserUses }

\* as FilterOf, with one filter field for the whole process
FilterOfFirst(ps, id) == ps[1].region_filter_

\* the region_filter_ of the instance
FilterOf(ps, id) == ps[id].region_filter_

\* the other threads that are in the middle of assigning the field of the
\* instance the thread uses
Writers(t) ==
    { u \in Threads \ {t} :
         /\ parser_calls[u].parser = parser_calls[t].parser
         /\ parser_calls[u].pc = "region_filter_" }

\* what a read of the field can give: the value it holds, or while another
\* thread assigns it the value being assigned
ReadableValues(t) ==
    {FilterOf(parsers, parser_calls[t].parser)}
        \cup { parser_calls[u].filter : u \in Writers(t) }

\* as FieldRead, with the predicate taken once when the parse is entered
FieldReadAtEntry(read, at_entry) == at_entry

\* shouldIncludeRegion reads region_filter_ when it is called
FieldRead(read, at_entry) == read

\* the thread is in no call, and the process is alive
CanCallParser(t) ==
    /\ parser_calls[t].pc \in {"idle", "returned"}
    /\ \A u \in Threads : ~parser_calls[u].crashed

\* the thread is inside a call at pc, and the process is alive
InsideCall(t, at) ==
    /\ parser_calls[t].pc = at
    /\ \A u \in Threads : ~parser_calls[u].crashed

NewParserCall(t, op) ==
    [NoParserCall(parser_calls[t].parser) EXCEPT
        !.op = op,
        !.installed = parser_calls[t].installed,
        !.at_entry = FilterOf(parsers, parser_calls[t].parser)]

\* setRegionFilter(filter): the assignment to region_filter_ starts
SetRegionFilterStart(t, filter) ==
    /\ CanCallParser(t)
    /\ parser_calls' =
          [parser_calls EXCEPT
              ![t] = [NewParserCall(t, "setRegionFilter") EXCEPT
                         !.pc = "region_filter_", !.filter = filter]]
    /\ filter_race' = (filter_race \/ Writers(t) # {})
    /\ UNCHANGED <<parsers, parser_vars, beside_instances>>

\* clearRegionFilter(): the assignment of nullptr starts
ClearRegionFilterStart(t) ==
    /\ CanCallParser(t)
    /\ parser_calls' =
          [parser_calls EXCEPT
              ![t] = [NewParserCall(t, "clearRegionFilter") EXCEPT
                         !.pc = "region_filter_", !.filter = NoFilter]]
    /\ filter_race' = (filter_race \/ Writers(t) # {})
    /\ UNCHANGED <<parsers, parser_vars, beside_instances>>

\* the assignment to region_filter_ ends
FilterAssigned(t) ==
    /\ InsideCall(t, "region_filter_")
    /\ parsers' = [parsers EXCEPT
                      ![parser_calls[t].parser].region_filter_ = parser_calls[t].filter]
    /\ parser_calls' =
          [parser_calls EXCEPT ![t].pc = "returned",
                               ![t].installed = parser_calls[t].filter]
    /\ UNCHANGED <<filter_race, parser_vars, beside_instances>>

\* parseProcess(-1), or findRegionsContaining(address, -1), up to the loop
\* over the lines
ParseStart(t, op, a) ==
    /\ CanCallParser(t)
    /\ parser_calls' =
          [parser_calls EXCEPT
              ![t] = [NewParserCall(t, op) EXCEPT !.pc = "getline", !.address = a]]
    /\ UNCHANGED <<parsers, filter_race, parser_vars, beside_instances>>

\* the call after the loop body has run for the next line, read being what
\* the read of region_filter_ gave
AfterLine(c, read) ==
    [c EXCEPT
        !.index = c.index + 1,
        !.regions = PushRegion(MapsLineTable[source.lines[c.index + 1]],
                               FieldRead(read, c.at_entry), c.regions),
        !.seen = IF MapsLineTable[source.lines[c.index + 1]].has_value
                 THEN Append(c.seen, read) ELSE c.seen]

\* one pass of the while (std::getline(file, line)) loop
GetLineStep(t, read) ==
    /\ InsideCall(t, "getline")
    /\ parser_calls[t].index < Len(source.lines)
    /\ read \in ReadableValues(t)
    /\ parser_calls' = [parser_calls EXCEPT ![t] = AfterLine(parser_calls[t], read)]
    /\ filter_race' =
          (filter_race
             \/ (/\ MapsLineTable[source.lines[parser_calls[t].index + 1]].has_value
                 /\ Writers(t) # {}))
    /\ UNCHANGED <<parsers, parser_vars, beside_instances>>

\* what the call returns once the loop has ended
ParseResult(c) ==
    IF c.op = "parseProcess" THEN ResultValue(c.regions)
    ELSE ContainingOf(ResultValue(c.regions), c.address)

\* getline meets the end of the file: the call returns
ParseReturn(t) ==
    /\ InsideCall(t, "getline")
    /\ parser_calls[t].index = Len(source.lines)
    /\ parser_calls' =
          [parser_calls EXCEPT ![t].pc = "returned",
                               ![t].ret = ParseResult(parser_calls[t]),
                               ![t].index = 0,
                               ![t].regions = <<>>]
    /\ UNCHANGED <<parsers, filter_race, parser_vars, beside_instances>>

\* after a data race on region_filter_ the behaviour of the program is
\* undefined: a call in progress may end the process
ParserCrash(t) ==
    /\ filter_race
    /\ parser_calls[t].pc \in {"region_filter_", "getline"}
    /\ \A u \in Threads : ~parser_calls[u].crashed
    /\ parser_calls' =
          [u \in Threads |->
             [NoParserCall(parser_calls[u].parser) EXCEPT
                 !.pc = "crashed", !.crashed = (u = t)]]
    /\ UNCHANGED <<parsers, filter_race, parser_vars, beside_instances>>

NextParserThreads ==
    \E t \in Threads :
        \/ \E filter \in Filters : SetRegionFilterStart(t, filter)
        \/ ClearRegionFilterStart(t)
        \/ FilterAssigned(t)
        \/ \E op \in {"parseProcess"}, a \in {0} : ParseStart(t, op, a)
        \/ \E op \in {"findRegionsContaining"}, a \in SharedLookups : ParseStart(t, op, a)
        \/ \E read \in Filters \cup {NoFilter} : GetLineStep(t, read)
        \/ ParseReturn(t)
        \/ ParserCrash(t)

SpecParserThreads == InitParserThreads /\ [][NextParserThreads]_vars

(***************************************************************************)
(* Properties.                                                             *)
(***************************************************************************)
\* the caller holds the Result of a call of op
Returned(op) == pc = "returned" /\ call.op = op

\* the build reads the maps file, and the file opens or does not
TextSourceOpened == source.platform = "linux" /\ source.cause = "ok"
TextSourceFailed == source.platform = "linux" /\ source.cause # "ok"

\* what parseProcess returns for the same source, filter and pid as the call
Parsed == parseProcess(source, region_filter_, call.pid)

\* the elements of a sequence
Range(seq) == { seq[i] : i \in DOMAIN seq }

\* needle occurs in hay as a contiguous run of characters
IsSubstring(needle, hay) ==
    \E i \in 0 .. (Len(hay) - Len(needle)) :
        \A k \in 1 .. Len(needle) : hay[i + k] = needle[k]

PermissionFlags == {"readable", "writable", "executable", "private_mapping"}

\* C1: for every region r and address a that contains was called with,
\* contains(a) is true exactly when a lies in the half-open interval
\* [r.start, r.end); contains(r.end) is false, and contains(r.start) is true
\* when start < end.
C1_ContainsIsHalfOpen ==
    \A c \in contains_calls :
        /\ c.result =
              (c.address \in c.region.start_address_ .. (c.region.end_address_ - 1))
        /\ (c.address = c.region.end_address_ => ~c.result)
        /\ (/\ c.address = c.region.start_address_
            /\ c.region.start_address_ < c.region.end_address_) => c.result

\* contains was called at a region's end (false) and at the start of a
\* non-empty region (true)
C1_Witness ==
    \E c, d \in contains_calls :
        /\ c.address = c.region.end_address_ /\ ~c.result
        /\ d.address = d.region.start_address_
        /\ d.region.start_address_ < d.region.end_address_
        /\ d.result

\* C2: findRegionsByPermissions(req, pid) returns exactly the parsed regions
\* in which every flag that is true in req is true; a flag false in req puts
\* no constraint, and an all-false req returns every parsed region.
C2_PermissionsSubsetMatch ==
    Returned("findRegionsByPermissions") /\ isSuccess(Parsed) =>
        /\ isSuccess(ret)
        /\ ret.value_ =
              SelectSeq(Parsed.value_,
                        LAMBDA r : \A f \in PermissionFlags :
                                      call.permissions[f] => r.permissions_[f])
        /\ (call.permissions = DefaultPermissions => ret.value_ = Parsed.value_)

\* a request for executable alone returned a region that is also readable,
\* and the parse holds a region it did not return
C2_Witness ==
    /\ Returned("findRegionsByPermissions")
    /\ call.permissions = [DefaultPermissions EXCEPT !.executable = TRUE]
    /\ \E r \in Range(ret.value_) : r.permissions_.readable
    /\ \E r \in Range(Parsed.value_) : r \notin Range(ret.value_)

\* C3: for the same source and filter, findRegionsContaining(addr, pid)
\* returns exactly the regions of parseProcess(pid) whose half-open interval
\* holds addr: a subset of the parse result, each containing addr.
C3_ContainingIsFilteredParse ==
    Returned("findRegionsContaining") /\ isSuccess(Parsed) =>
        /\ isSuccess(ret)
        /\ ret.value_ =
              SelectSeq(Parsed.value_,
                        LAMBDA r : /\ r.start_address_ <= call.address
                                   /\ call.address < r.end_address_)
        /\ Range(ret.value_) \subseteq Range(Parsed.value_)
        /\ \A r \in Range(ret.value_) :
              r.start_address_ <= call.address /\ call.address < r.end_address_

\* one parsed region holds the address and is returned, and another parsed
\* region does not hold it and is left out
C3_Witness ==
    /\ Returned("findRegionsContaining")
    /\ Len(ret.value_) = 1
    /\ Len(Parsed.value_) = 2

Blank == {" ", "\t"}

\* the maximal runs of non-blank characters of a line, in order
RECURSIVE SplitBlank(_, _, _)
SplitBlank(s, cur, out) ==
    IF s = <<>> THEN (IF cur = <<>> THEN out ELSE Append(out, cur))
    ELSE IF Head(s) \in Blank
    THEN SplitBlank(Tail(s), <<>>, IF cur = <<>> THEN out ELSE Append(out, cur))
    ELSE SplitBlank(Tail(s), Append(cur, Head(s)), out)

TokensOf == [l \in LineSet |-> SplitBlank(l, <<>>, <<>>)]

HexChars ==
    {"0", "1", "2", "3", "4", "5", "6", "7", "8", "9",
     "a", "b", "c", "d", "e", "f", "A", "B", "C", "D", "E", "F"}
DecChars == {"0", "1", "2", "3", "4", "5", "6", "7", "8", "9"}

IsHexNumber(tok) == tok # <<>> /\ \A i \in DOMAIN tok : tok[i] \in HexChars
IsDecNumber(tok) == tok # <<>> /\ \A i \in DOMAIN tok : tok[i] \in DecChars

\* the value of a string of digits
RECURSIVE NumberValue(_, _)
NumberValue(tok, base) ==
    IF tok = <<>> THEN 0
    ELSE NumberValue(SubSeq(tok, 1, Len(tok) - 1), base) * base
            + DigitValue(tok[Len(tok)])

HasDash(tok) == \E i \in DOMAIN tok : tok[i] = "-"
FirstDash(tok) == CHOOSE i \in DOMAIN tok : tok[i] = "-" /\ \A j \in 1 .. (i - 1) : tok[j] # "-"
StartToken(tok) == SubSeq(tok, 1, FirstDash(tok) - 1)
EndToken(tok) == SubSeq(tok, FirstDash(tok) + 1, Len(tok))

\* fewer than five tokens, or no '-' in the address-range token
TooShortOrNoDash(l) == Len(TokensOf[l]) < 5 \/ ~HasDash(TokensOf[l][1])

\* five tokens and a '-', and the four numeric tokens are numbers
NumbersValid(l) ==
    /\ ~TooShortOrNoDash(l)
    /\ IsHexNumber(StartToken(TokensOf[l][1]))
    /\ IsHexNumber(EndToken(TokensOf[l][1]))
    /\ IsHexNumber(TokensOf[l][3])
    /\ IsDecNumber(TokensOf[l][5])

\* a line of the grammar whose hexadecimal values fit the machine word
WellFormed(l) ==
    /\ NumbersValid(l)
    /\ NumberValue(StartToken(TokensOf[l][1]), 16) < WordModulus
    /\ NumberValue(EndToken(TokensOf[l][1]), 16) < WordModulus
    /\ NumberValue(TokensOf[l][3], 16) < WordModulus

\* what is left of a line after its first n tokens and the blanks before them
RECURSIVE DropBlanks(_)
DropBlanks(s) == IF s # <<>> /\ Head(s) \in Blank THEN DropBlanks(Tail(s)) ELSE s
RECURSIVE DropToken(_)
DropToken(s) == IF s # <<>> /\ Head(s) \notin Blank THEN DropToken(Tail(s)) ELSE s
RECURSIVE AfterTokens(_, _)
AfterTokens(s, n) ==
    IF n = 0 THEN s ELSE AfterTokens(DropToken(DropBlanks(s)), n - 1)

\* the region the grammar assigns to a well-formed line
GrammarRegion ==
    [l \in LineSet |->
        [start_address_ |-> NumberValue(StartToken(TokensOf[l][1]), 16),
         end_address_ |-> NumberValue(EndToken(TokensOf[l][1]), 16),
         permissions_ |-> fromString(TokensOf[l][2]),
         offset_ |-> NumberValue(TokensOf[l][3], 16),
         device_ |-> TokensOf[l][4],
         inode_ |-> NumberValue(TokensOf[l][5], 10),
         pathname_ |-> DropBlanks(AfterTokens(l, 5)),
         original_line_ |-> l]]

\* how many times x occurs in a sequence
Occurrences(seq, x) == Cardinality({ i \in DOMAIN seq : seq[i] = x })

\* the lines the returned regions were made from, in order
OriginalLines(regions) == [i \in DOMAIN regions |-> regions[i].original_line_]

\* C6 as claimed: every region parseProcess returns has start <= end, and
\* its getSize() is end - start, a non-negative quantity.
C6_RegionsAreOrdered ==
    Returned("parseProcess") /\ isSuccess(ret) =>
        \A r \in Range(ret.value_) :
            /\ r.start_address_ <= r.end_address_
            /\ getSize(r) = r.end_address_ - r.start_address_

\* C7 as claimed: a line whose start, end or offset token is not a
\* hexadecimal number, or whose inode token is not a decimal number, yields
\* no region, and the call still succeeds with the other lines' regions.
C7_InvalidNumberDiscardsLine ==
    Returned("parseProcess") /\ TextSourceOpened =>
        /\ isSuccess(ret)
        /\ \A r \in Range(ret.value_) : NumbersValid(r.original_line_)

\* C8: a line with fewer than five tokens, or with no '-' in its
\* address-range token, yields no region and no error: the parse of an
\* openable source succeeds; with no filter installed every well-formed
\* line yields one region per occurrence; a source of only such short or
\* dash-less lines yields an empty sequence.
C8_ShortOrDashlessLineSkipped ==
    Returned("parseProcess") /\ TextSourceOpened =>
        /\ isSuccess(ret)
        /\ \A l \in Range(source.lines) :
              /\ TooShortOrNoDash(l) => Occurrences(OriginalLines(ret.value_), l) = 0
              /\ WellFormed(l) /\ region_filter_ = NoFilter =>
                    Occurrences(OriginalLines(ret.value_), l)
                        = Occurrences(source.lines, l)
        /\ (\A l \in Range(source.lines) : TooShortOrNoDash(l)) => ret.value_ = <<>>

\* a short line comes before a well-formed line: the parse succeeded and
\* returned the region of the well-formed line alone
C8_Witness ==
    /\ Returned("parseProcess")
    /\ region_filter_ = NoFilter
    /\ TextSourceOpened
    /\ Len(source.lines) = 2
    /\ TooShortOrNoDash(source.lines[1])
    /\ WellFormed(source.lines[2])
    /\ isSuccess(ret)
    /\ Len(ret.value_) = 1

\* C9 as claimed: with no filter installed, every line of the grammar yields
\* exactly one region, whose fields are the values of its tokens and whose
\* pathname is the rest of the line without its leading blanks.
C9_GrammarLineYieldsItsRegion ==
    Returned("parseProcess") /\ TextSourceOpened /\ region_filter_ = NoFilter =>
        \A l \in Range(source.lines) :
            WellFormed(l) =>
                /\ Occurrences(OriginalLines(ret.value_), l)
                      = Occurrences(source.lines, l)
                /\ \A r \in Range(ret.value_) :
                      r.original_line_ = l => r = GrammarRegion[l]

\* the part of C9 the code keeps: the same, for lines whose inode fits
\* uint32_t
C9_HoldsWhenInodeFits ==
    Returned("parseProcess") /\ TextSourceOpened /\ region_filter_ = NoFilter =>
        \A l \in Range(source.lines) :
            WellFormed(l) /\ NumberValue(TokensOf[l][5], 10) < InodeModulus =>
                /\ Occurrences(OriginalLines(ret.value_), l)
                      = Occurrences(source.lines, l)
                /\ \A r \in Range(ret.value_) :
                      r.original_line_ = l => r = GrammarRegion[l]

FindOps == {"findRegionsContaining", "findRegionsByPath", "findRegionsByPermissions"}

\* the criterion of the find operation the caller made, on region r
MatchesCall(r) ==
    IF call.op = "findRegionsContaining"
    THEN r.start_address_ <= call.address /\ call.address < r.end_address_
    ELSE IF call.op = "findRegionsByPath"
    THEN IF call.exact_match THEN r.pathname_ = call.pathname
         ELSE IsSubstring(call.pathname, r.pathname_)
    ELSE \A f \in PermissionFlags : call.permissions[f] => r.permissions_[f]

\* C11: each of findRegionsContaining, findRegionsByPath and
\* findRegionsByPermissions returns an error exactly when parseProcess(pid)
\* fails for the same source, and then with the same code and message; when
\* the parse succeeds and no parsed region meets the criterion, it returns a
\* success holding the empty sequence.
C11_FindFailsOnlyWithParse ==
    pc = "returned" /\ call.op \in FindOps =>
        /\ hasError(ret) <=> hasError(Parsed)
        /\ hasError(ret) =>
              /\ ret.error_ = Parsed.error_
              /\ ret.error_message_ = Parsed.error_message_
        /\ (isSuccess(Parsed) /\ \A r \in Range(Parsed.value_) : ~MatchesCall(r)) =>
              isSuccess(ret) /\ ret.value_ = <<>>

\* the parse holds regions, none of them holds the address asked for, and
\* findRegionsContaining returned a success with no region
C11_Witness ==
    /\ Returned("findRegionsContaining")
    /\ isSuccess(Parsed)
    /\ Parsed.value_ # <<>>
    /\ \A r \in Range(Parsed.value_) : ~MatchesCall(r)
    /\ isSuccess(ret)
    /\ ret.value_ = <<>>


\* the candidate regions: what the backend yields for the call's pid when no
\* predicate is installed
Candidates == parseProcess(source, NoFilter, call.pid)

\* C12: while a predicate P is installed, parseProcess returns exactly the
\* candidate regions for which P is true, in their order, and each find
\* operation returns exactly the candidates that satisfy both P and the
\* operation's own criterion; P changes no failure into a success or back.
C12_FilterComposesWithQueries ==
    /\ pc = "returned"
    /\ call.op \in FindOps \cup {"parseProcess"}
    /\ region_filter_ \in Filters
    => /\ isSuccess(ret) <=> isSuccess(Candidates)
       /\ isSuccess(ret) =>
             ret.value_ =
                SelectSeq(Candidates.value_,
                          LAMBDA r : /\ CallFilter(region_filter_, r)
                                     /\ (call.op = "parseProcess" \/ MatchesCall(r)))

\* with a predicate installed, a find operation returned one region while
\* another candidate that meets the operation's criterion fails the
\* predicate and is left out
C12_Witness ==
    /\ pc = "returned"
    /\ call.op \in FindOps
    /\ region_filter_ \in Filters
    /\ isSuccess(ret)
    /\ Len(ret.value_) = 1
    /\ \E r \in Range(Candidates.value_) :
          MatchesCall(r) /\ ~CallFilter(region_filter_, r)


\* the predicate the caller installed last, NoFilter when it cleared it since
LastInstalled == IF filter_calls = <<>> THEN NoFilter ELSE filter_calls[Len(filter_calls)]

\* C13: the parser holds the one predicate installed last and nothing else:
\* at every moment, also after any parse or find operation has returned,
\* successfully or not, the installed predicate is the argument of the last
\* setRegionFilter, or none after clearRegionFilter; every parse or find
\* result is the candidates of the current source selected by that predicate
\* alone and the operation's criterion, whatever was installed or returned
\* before; with none installed parseProcess returns every candidate.
C13_OnlyLastFilterApplies ==
    /\ region_filter_ = LastInstalled
    /\ pc = "returned" /\ call.op \in FindOps \cup {"parseProcess"} =>
          /\ hasError(Candidates) => ret = Candidates
          /\ isSuccess(Candidates) =>
                /\ isSuccess(ret)
                /\ ret.value_ =
                      SelectSeq(Candidates.value_,
                                LAMBDA r : /\ shouldIncludeRegion(LastInstalled, r)
                                           /\ (call.op = "parseProcess" \/ MatchesCall(r)))
          /\ (LastInstalled = NoFilter /\ call.op = "parseProcess") => ret = Candidates

\* setRegionFilter(P1) was followed by setRegionFilter(P2), and parseProcess
\* then returned a region that fails P1 and passes P2
C13_Witness ==
    /\ Returned("parseProcess")
    /\ Len(filter_calls) = 2
    /\ filter_calls[1] # filter_calls[2]
    /\ isSuccess(ret)
    /\ \E r \in Range(ret.value_) :
          ~CallFilter(filter_calls[1], r) /\ CallFilter(filter_calls[2], r)


(***************************************************************************)
(* The Result class                                                        *)
(***************************************************************************)
\* C14 as claimed: isSuccess() and hasError() of a Result are never equal; a
\* Result built from a payload is a success with code Success; a Result
\* built from an error code and a message is in the error state and reports
\* that code and that message.
C14_ResultStateFollowsConstructor ==
    pc = "returned" =>
        /\ isSuccess(ret) # hasError(ret)
        /\ call.op = "Result(value)" => isSuccess(ret) /\ ret.error_ = "SUCCESS"
        /\ call.op = "Result(error, message)" =>
              /\ hasError(ret)
              /\ ret.error_ = call.error
              /\ ret.error_message_ = call.message

\* the part of C14 the code keeps: the same, for every code but Success
C14_HoldsForFailureCodes ==
    pc = "returned" =>
        /\ isSuccess(ret) # hasError(ret)
        /\ call.op = "Result(value)" => isSuccess(ret) /\ ret.error_ = "SUCCESS"
        /\ call.op = "Result(error, message)" =>
              /\ call.error # "SUCCESS" => hasError(ret)
              /\ ret.error_ = call.error
              /\ ret.error_message_ = call.message

\* C15: getValue on a Result in the error state throws std::runtime_error and
\* returns no payload; getValue on a Result built from a payload returns that
\* payload.
C15_GetValueThrowsOnError ==
    pc = "returned" /\ answer # NoAnswer =>
        /\ hasError(ret) =>
              answer.kind = "throw" /\ answer.what = "std::runtime_error"
        /\ call.op = "Result(value)" =>
              answer.kind = "value" /\ answer.value = call.value

\* getValue was called on a Result built from PermissionDenied and a message,
\* and threw
C15_Witness ==
    /\ pc = "returned"
    /\ call.op = "Result(error, message)"
    /\ call.error = "PERMISSION_DENIED"
    /\ call.message = "Test error"
    /\ answer.kind = "throw"


(***************************************************************************)
(* MemoryPermissions                                                       *)
(***************************************************************************)
\* C16: for each of the 16 permission values p, toString yields exactly 4
\* characters, 'r' or '-', 'w' or '-', 'x' or '-', then 'p' (private) or 's'
\* (shared), each telling its flag, and fromString of that string is p.
C16_PermissionsRoundTrip ==
    /\ Returned("toString") =>
          /\ answer.kind = "string"
          /\ Len(answer.value) = 4
          /\ answer.value[1] = (IF call.permissions.readable THEN "r" ELSE "-")
          /\ answer.value[2] = (IF call.permissions.writable THEN "w" ELSE "-")
          /\ answer.value[3] = (IF call.permissions.executable THEN "x" ELSE "-")
          /\ answer.value[4] = (IF call.permissions.private_mapping THEN "p" ELSE "s")
    /\ Returned("fromString(toString)") =>
          /\ Len(call.perm_str) = 4
          /\ call.perm_str[4] \in {"p", "s"}
          /\ answer.value = call.permissions

\* the shared, write-only value was converted to "-w-s" and parsed back
C16_Witness ==
    /\ Returned("fromString(toString)")
    /\ call.permissions = [DefaultPermissions EXCEPT !.writable = TRUE]
    /\ call.perm_str = <<"-", "w", "-", "s">>
    /\ answer.value = call.permissions

\* C17: fromString(s) returns the all-false value when s has fewer than 4
\* characters, whatever they are; otherwise readable iff s[0] = 'r', writable
\* iff s[1] = 'w', executable iff s[2] = 'x', private iff s[3] = 'p', every
\* other character meaning unset and the characters after the fourth
\* ignored; every string yields a value, none an error.
C17_FromStringByPosition ==
    Returned("fromString") =>
        /\ answer.kind = "permissions"
        /\ answer.value \in PermissionValues
        /\ Len(call.perm_str) < 4 => answer.value = DefaultPermissions
        /\ Len(call.perm_str) >= 4 =>
              /\ answer.value.readable <=> call.perm_str[1] = "r"
              /\ answer.value.writable <=> call.perm_str[2] = "w"
              /\ answer.value.executable <=> call.perm_str[3] = "x"
              /\ answer.value.private_mapping <=> call.perm_str[4] = "p"

\* fromString("rwx") returned the all-false value
C17_Witness ==
    /\ Returned("fromString")
    /\ call.perm_str = <<"r", "w", "x">>
    /\ answer.value = DefaultPermissions


(***************************************************************************)
(* Backend selection and the region-enumeration backend                    *)
(***************************************************************************)
ParseOps == FindOps \cup {"parseProcess"}

\* C18: on a build target with no backend parseProcess, and each find
\* operation through it, returns PlatformNotSupported with no regions and
\* makes no system call; isPlatformSupported() returns false exactly on such
\* a target, so PlatformNotSupported is never returned where it returns true.
C18_UnsupportedPlatformDoesNoIO ==
    /\ Returned("isPlatformSupported") =>
          answer = [kind |-> "bool", value |-> (source.platform # "other")]
    /\ pc = "returned" /\ call.op \in ParseOps =>
          /\ source.platform = "other" =>
                /\ ret.error_ = "PLATFORM_NOT_SUPPORTED"
                /\ ret.value_ = <<>>
                /\ sys_calls = <<>>
          /\ ret.error_ = "PLATFORM_NOT_SUPPORTED" => source.platform = "other"

\* on a target with no backend parseProcess returned PlatformNotSupported
\* and made no system call
C18_Witness ==
    /\ Returned("parseProcess")
    /\ source.platform = "other"
    /\ ret.error_ = "PLATFORM_NOT_SUPPORTED"
    /\ sys_calls = <<>>

\* the region the enumeration backend is to make of the kernel's region v
TranslatedRegion(v) ==
    [start_address_ |-> v.address,
     end_address_ |-> v.address + v.size,
     permissions_ |-> [readable |-> v.protection \in {1, 3, 5, 7},
                       writable |-> v.protection \in {2, 3, 6, 7},
                       executable |-> v.protection \in {4, 5, 6, 7},
                       private_mapping |-> ~v.shared],
     offset_ |-> 0,
     device_ |-> <<"0", "0", ":", "0", "0">>,
     inode_ |-> 0,
     pathname_ |-> <<>>,
     original_line_ |-> <<>>]

\* C19: every region the enumeration backend returns is the translation of
\* a region the kernel reported: readable, writable and executable are its
\* protection bits, private is the negation of its shared flag, offset and
\* inode are 0, the pathname is empty (isAnonymous() is true) and the device
\* is "00:00"; with no predicate installed it returns one region for each
\* kernel region, in the kernel's order.
C19_EnumeratedRegionsAreTranslations ==
    Returned("parseProcess") /\ source.platform = "apple" /\ isSuccess(ret) =>
        /\ \A r \in Range(ret.value_) :
              /\ \E v \in Range(source.vm) : r = TranslatedRegion(v)
              /\ r.offset_ = 0 /\ r.inode_ = 0 /\ r.pathname_ = <<>>
              /\ isAnonymous(r)
        /\ region_filter_ = NoFilter =>
              ret.value_ = [i \in DOMAIN source.vm |-> TranslatedRegion(source.vm[i])]

\* the backend returned two regions, one of them made of a shared, writable
\* kernel region: it is writable and not private
C19_Witness ==
    /\ Returned("parseProcess")
    /\ source.platform = "apple"
    /\ Len(ret.value_) = 2
    /\ \E r \in Range(ret.value_) :
          r.permissions_.writable /\ ~r.permissions_.private_mapping

\* C20: on the enumeration backend, a call for another process (pid > 0)
\* whose task_for_pid is refused returns PermissionDenied with no regions
\* after that one system call, no vm_region_64 among them; a call for the
\* caller's own process (pid <= 0) never calls task_for_pid and never
\* returns PermissionDenied, whatever task_for_pid would answer.
C20_RefusedGrantStopsEnumeration ==
    pc = "returned" /\ call.op \in ParseOps /\ source.platform = "apple" =>
        /\ (call.pid > 0 /\ source.task_for_pid # "KERN_SUCCESS") =>
              /\ ret.error_ = "PERMISSION_DENIED"
              /\ ret.value_ = <<>>
              /\ sys_calls = <<"task_for_pid">>
        /\ call.pid <= 0 =>
              /\ "task_for_pid" \notin Range(sys_calls)
              /\ ret.error_ # "PERMISSION_DENIED"
              /\ isSuccess(ret)

\* the grant for process 1 was refused: parseProcess returned
\* PermissionDenied and never called vm_region_64, though the address space
\* holds regions
C20_Witness ==
    /\ Returned("parseProcess")
    /\ source.platform = "apple"
    /\ call.pid = 1
    /\ source.task_for_pid = "KERN_FAILURE"
    /\ source.vm # <<>>
    /\ ret.error_ = "PERMISSION_DENIED"
    /\ "vm_region_64" \notin Range(sys_calls)


\* C28: the regions the enumeration backend returns are in strictly
\* increasing address order and do not overlap: each starts at or above the
\* end of the one returned before it, starts above that one's start, and no
\* region is returned twice.
C28_EnumeratedRegionsAscend ==
    Returned("parseProcess") /\ source.platform = "apple" /\ isSuccess(ret) =>
        /\ \A i \in 1 .. Len(ret.value_) - 1 :
              /\ ret.value_[i].end_address_ <= ret.value_[i + 1].start_address_
              /\ ret.value_[i].start_address_ < ret.value_[i + 1].start_address_
        /\ \A i, j \in DOMAIN ret.value_ : i # j => ret.value_[i] # ret.value_[j]

\* the backend returned two regions, the second above the end of the first
C28_Witness ==
    /\ Returned("parseProcess")
    /\ source.platform = "apple"
    /\ Len(ret.value_) = 2
    /\ ret.value_[1].end_address_ < ret.value_[2].start_address_

(***************************************************************************)
(* Order and multiplicity on the text backend                              *)
(***************************************************************************)
\* the line yields a region that the installed predicate lets through
Survives(l) ==
    /\ MapsLineTable[l].has_value
    /\ shouldIncludeRegion(region_filter_, MapsLineTable[l].value)

\* seq holds the elements of full that satisfy Test(_), in the order and as
\* many times as full holds them
KeepsOrder(seq, full, Test(_)) == seq = SelectSeq(full, Test)

\* C29: parseProcess returns one region for each source line that survives,
\* in the order of the lines, a line that occurs twice yielding two regions;
\* each find operation returns its matches in the relative order parseProcess
\* returns them and as many times, with nothing sorted, merged or dropped as
\* a duplicate.
C29_OrderAndMultiplicityKept ==
    /\ Returned("parseProcess") /\ TextSourceOpened =>
          /\ KeepsOrder(OriginalLines(ret.value_), source.lines, Survives)
          /\ \A i \in DOMAIN ret.value_ :
                ret.value_[i] = MapsLineTable[ret.value_[i].original_line_].value
    /\ pc = "returned" /\ call.op \in FindOps /\ TextSourceOpened =>
          KeepsOrder(ret.value_, Parsed.value_, MatchesCall)

\* the source holds the same line twice and parseProcess returned two equal
\* regions
C29_Witness ==
    /\ Returned("parseProcess")
    /\ TextSourceOpened
    /\ Len(source.lines) = 2
    /\ source.lines[1] = source.lines[2]
    /\ Len(ret.value_) = 2
    /\ ret.value_[1] = ret.value_[2]


(***************************************************************************)
(* The enumeration loop                                                    *)
(***************************************************************************)
\* the loop moved the query address past the end of the region it was given
MovesPastRegion ==
    pc = "vm_region_64" /\ pc' = "vm_region_64" =>
        /\ vm_address' > vm_address
        /\ vm_address' >= VmRegion64(source.vm, vm_address).address
                          + VmRegion64(source.vm, vm_address).size

\* C27: the enumeration loop terminates for every address space with
\* finitely many regions, one whose last region ends at the top of the
\* address range included: each region found moves the next query address
\* strictly past the region's end, and a call that entered the loop returns.
C27_EnumerationTerminates ==
    /\ [][MovesPastRegion]_vars
    /\ (pc = "vm_region_64") ~> (pc = "returned")

\* the address space ends below the top of the address range
EndsBelowTop ==
    \A i \in DOMAIN source.vm : source.vm[i].address + source.vm[i].size < WordModulus

\* what C27 says, for the address spaces that end below the top of the
\* address range
C27_TerminatesBelowTop ==
    /\ [][EndsBelowTop => MovesPastRegion]_vars
    /\ (pc = "vm_region_64" /\ EndsBelowTop) ~> (pc = "returned")

\* what C27 says of the call returning, alone
C27_LoopReturns == (pc = "vm_region_64") ~> (pc = "returned")


(***************************************************************************)
(* HookManager                                                             *)
(***************************************************************************)
\* the thread holds the return value of op
HookReturned(t, op) == hook_calls[t].pc = "returned" /\ hook_calls[t].op = op

\* no thread is inside a call
NoCallInProgress ==
    \A t \in Threads : hook_calls[t].pc \in {"absent", "idle", "returned"}

\* a step of a hookFunction or unhookFunction call on one address leaves
\* what the registry holds under every other address as it is
OtherAddressesKept ==
    \A t \in Threads :
        hook_calls[t].op \in {"hookFunction", "unhookFunction"} =>
            \A a \in HookAddresses \ {hook_calls[t].target_address} :
                FindHook(active_hooks_', a) = FindHook(active_hooks_, a)

\* C23: an address is reported hooked (isHooked true, getHookInfo non-null,
\* listed once by getAllHooks) exactly when a hookFunction on it succeeded
\* and no successful unhookFunction on it and no cleanup came after;
\* getAllHooks has as many entries as there are such addresses; and a
\* hookFunction or unhookFunction on one address changes nothing under
\* another.
C23_HookedIffSucceededAndNotUndone ==
    /\ [](\A a \in HookAddresses :
             /\ isHooked(active_hooks_, a) <=> a \in hooked
             /\ ~getHookInfo(active_hooks_, a).is_null <=> a \in hooked
             /\ Cardinality(FindHook(getAllHooks(active_hooks_), a))
                    = IF a \in hooked THEN 1 ELSE 0)
    /\ [](Cardinality(getAllHooks(active_hooks_)) = Cardinality(hooked))
    /\ [](\A t \in Threads :
             HookReturned(t, "queries") =>
                /\ hook_calls[t].value.isHooked
                      <=> hook_calls[t].target_address \in hooked
                /\ ~hook_calls[t].value.getHookInfo.is_null
                      <=> hook_calls[t].target_address \in hooked
                /\ Cardinality(hook_calls[t].value.getAllHooks) = Cardinality(hooked))
    /\ [][OtherAddressesKept]_vars

\* two addresses were hooked and one of them was unhooked again: the queries
\* report the other one alone
C23_Witness ==
    /\ HookReturned(1, "queries")
    /\ hook_calls[1].target_address = "counting_function"
    /\ hook_calls[1].value.isHooked
    /\ hooked = {"counting_function"}
    /\ Cardinality(hook_calls[1].value.getAllHooks) = 1


\* the address is null, or no loaded image holds it
NullOrInvalid(a) == a = nullptr \/ dladdr(a).result = 0

\* the call made no engine call and the registry is as the call found it
RefusedUntouched(c) == c.engine_calls = 0 /\ active_hooks_ = c.before

\* C24: hookFunction on a null or otherwise invalid address returns
\* INVALID_ADDRESS; hookFunction on an address that is actively hooked
\* returns ALREADY_HOOKED without calling the engine and leaves the entry
\* (tag, replacement) as it was; unhookFunction on an address that is not
\* hooked, a second unhook included, returns FAILED; and each of these
\* refusals leaves the registry unchanged.
C24_RefusalsLeaveRegistry ==
    /\ HookReturned(1, "hookFunction") =>
          /\ NullOrInvalid(hook_calls[1].target_address) =>
                /\ hook_calls[1].status = "INVALID_ADDRESS"
                /\ RefusedUntouched(hook_calls[1])
          /\ /\ ~NullOrInvalid(hook_calls[1].target_address)
             /\ IsActive(hook_calls[1].before, hook_calls[1].target_address)
             => /\ hook_calls[1].status = "ALREADY_HOOKED"
                /\ RefusedUntouched(hook_calls[1])
                /\ FindHook(active_hooks_, hook_calls[1].target_address)
                      = FindHook(hook_calls[1].before, hook_calls[1].target_address)
    /\ HookReturned(1, "unhookFunction") =>
          (~IsActive(hook_calls[1].before, hook_calls[1].target_address) =>
                /\ hook_calls[1].status = "FAILED"
                /\ RefusedUntouched(hook_calls[1]))

\* an address hooked with one tag and replacement was hooked again with
\* others: ALREADY_HOOKED, and the entry still carries the first ones
C24_Witness ==
    /\ HookReturned(1, "hookFunction")
    /\ hook_calls[1].status = "ALREADY_HOOKED"
    /\ hook_calls[1].tag = "duplicate_hook"
    /\ \E h \in active_hooks_ :
          /\ h.target_address = hook_calls[1].target_address
          /\ h.symbol_name = "test_hook"
          /\ h.replace_function = "hooked_test_function"

\* the calls of the two threads ran at the same time on an address that was
\* not hooked, and every engine call they made was accepted
ConcurrentHooks(a) ==
    /\ \A t \in Threads :
          /\ HookReturned(t, "hookFunction")
          /\ hook_calls[t].target_address = a
          /\ hook_calls[t].concurrent
          /\ hook_calls[t].status # "FAILED"

\* the threads whose call returned status
WithStatus(status) == { t \in Threads : hook_calls[t].status = status }

\* C30: when two threads call hookFunction at the same time on the same
\* valid address that is not hooked and the engine accepts, the engine is
\* asked once, one call returns SUCCESS and the other ALREADY_HOOKED, and
\* the registry ends with the one entry of the successful call.
C30_ConcurrentHooksSerialized ==
    \A a \in SharedAddresses :
        ConcurrentHooks(a) =>
            /\ hook_calls[1].engine_calls + hook_calls[2].engine_calls = 1
            /\ Cardinality(WithStatus("SUCCESS")) = 1
            /\ Cardinality(WithStatus("ALREADY_HOOKED")) = 1
            /\ \A t \in WithStatus("SUCCESS") :
                  active_hooks_ = {NewHookInfo(hook_calls[t])}

\* the second thread to enter won: it returned SUCCESS and the first
\* ALREADY_HOOKED, with different replacements
C30_Witness ==
    /\ ConcurrentHooks("original_test_function")
    /\ hook_calls[1].status = "ALREADY_HOOKED"
    /\ hook_calls[2].status = "SUCCESS"
    /\ hook_calls[1].replace_function # hook_calls[2].replace_function


(***************************************************************************)
(* The toolkit facade                                                      *)
(***************************************************************************)
\* the thread holds what op returned
ToolkitReturned(t, op) == toolkit_calls[t].pc = "returned" /\ toolkit_calls[t].op = op

\* C25: isInitialized() is true exactly between an initialize that returned
\* true and the next cleanup; initialize while initialized returns true and
\* runs no initialization step again; cleanup while not initialized does
\* nothing, any number of times; initialize after a cleanup, with another
\* configuration, runs the steps for that configuration and succeeds when
\* they do; and an initialize that returns false leaves isInitialized() false.
C25_InitializedBetweenInitializeAndCleanup ==
    /\ ToolkitReturned(1, "initialize") =>
          /\ g_initialized <=> toolkit_calls[1].ret = "true"
          /\ toolkit_calls[1].was_initialized =>
                /\ toolkit_calls[1].ret = "true"
                /\ toolkit_calls[1].steps = 0
                /\ logger = toolkit_calls[1].logger_before
          /\ ~toolkit_calls[1].was_initialized =>
                /\ toolkit_calls[1].steps > 0
                /\ logger.tag_ = TagOf(toolkit_calls[1].config.app_tag)
                /\ logger.min_level_ = toolkit_calls[1].config.log_level
    /\ ToolkitReturned(1, "cleanup") =>
          /\ ~g_initialized
          /\ ~toolkit_calls[1].was_initialized =>
                /\ toolkit_calls[1].steps = 0
                /\ logger = toolkit_calls[1].logger_before
    /\ ToolkitReturned(1, "isInitialized") =>
          /\ toolkit_calls[1].ret = Bool(g_initialized)
          /\ toolkit_calls[1].ret = Bool(toolkit_calls[1].was_initialized)

\* initialize returned true for a second configuration after a cleanup that
\* followed an initialize with the first
C25_Witness ==
    /\ ToolkitReturned(1, "initialize")
    /\ toolkit_calls[1].ret = "true"
    /\ ~toolkit_calls[1].was_initialized
    /\ toolkit_calls[1].config.app_tag = "SecondInit"
    /\ toolkit_calls[1].logger_before.tag_ = "FirstInit"
    /\ logger.tag_ = "SecondInit"

\* the threads that called initialize have all returned
AllInitializeReturned == \A t \in Threads : ToolkitReturned(t, "initialize")

\* C26: initialize is thread-safe: when several threads call it at the same
\* time from the uninitialized state, every call returns true,
\* isInitialized() is true once all have returned, and the calls do not
\* race on the state of the logger or of the managers.
C26_ConcurrentInitializeSafe ==
    /\ ~data_race
    /\ \A t \in Threads : ToolkitReturned(t, "initialize") => toolkit_calls[t].ret = "true"
    /\ AllInitializeReturned => g_initialized

\* what C26 says of the return values and the flag, in the behaviours in
\* which the threads happen not to race
C26_HoldsWithoutRace ==
    data_race \/
        /\ \A t \in Threads :
              ToolkitReturned(t, "initialize") => toolkit_calls[t].ret = "true"
        /\ AllInitializeReturned => g_initialized


(***************************************************************************)
(* Parser instances and threads                                            *)
(***************************************************************************)
\* each thread has a parser instance of its own
OwnParsers == parser_calls[1].parser # parser_calls[2].parser

\* the thread holds what op returned
ParserReturned(t, op) == parser_calls[t].pc = "returned" /\ parser_calls[t].op = op

\* C21: two parser instances used at the same time by different threads do
\* not affect each other: under every interleaving of setRegionFilter,
\* clearRegionFilter, parse and find calls on one instance, the filter of
\* the other is the one its own thread installed last, each parse or find on
\* it returns what it returns when that thread runs alone, and no access of
\* the two threads meets on one field.
C21_OwnParsersIndependent ==
    OwnParsers =>
        /\ ~filter_race
        /\ \A t \in Threads :
              /\ parsers[parser_calls[t].parser].region_filter_ = parser_calls[t].installed
              /\ ~parser_calls[t].crashed
              /\ ParserReturned(t, "parseProcess") =>
                    parser_calls[t].ret
                       = parseProcess(source, parser_calls[t].installed, -1)
              /\ ParserReturned(t, "findRegionsContaining") =>
                    parser_calls[t].ret
                       = findRegionsContaining(source, parser_calls[t].installed,
                                               parser_calls[t].address, -1)

\* the two threads installed different predicates on their own instances at
\* the same time and each parse returned what its own predicate selects
C21_Witness ==
    /\ OwnParsers
    /\ \A t \in Threads : ParserReturned(t, "parseProcess")
    /\ parser_calls[1].installed = FilterLarge
    /\ parser_calls[2].installed = FilterLargeAnonymous
    /\ parser_calls[1].seen = <<FilterLarge, FilterLarge>>
    /\ parser_calls[2].seen = <<FilterLargeAnonymous, FilterLargeAnonymous>>
    /\ Len(parser_calls[1].ret.value_) = 2
    /\ Len(parser_calls[2].ret.value_) = 0

\* the regions the lines yield, in order
RECURSIVE CandidatesOf(_)
CandidatesOf(lines) ==
    IF lines = <<>> THEN <<>>
    ELSE (IF MapsLineTable[Head(lines)].has_value
          THEN <<MapsLineTable[Head(lines)].value>> ELSE <<>>)
            \o CandidatesOf(Tail(lines))

\* the candidates that the predicate read for them lets through
RECURSIVE SelectedByEach(_, _)
SelectedByEach(candidates, predicates) ==
    IF candidates = <<>> THEN <<>>
    ELSE (IF shouldIncludeRegion(Head(predicates), Head(candidates))
          THEN <<Head(candidates)>> ELSE <<>>)
            \o SelectedByEach(Tail(candidates), Tail(predicates))

\* C22: when two threads share one parser without synchronisation and one
\* calls setRegionFilter while the other is inside a parse, the accesses to
\* the filter field race: the field is read once for each candidate, with no
\* lock, so every candidate is judged by the predicate the field gave when
\* that candidate was reached, and one parse can apply the old predicate to
\* some candidates and the new one to others.
C22_FilterReadPerCandidate ==
    \A t \in Threads :
        ParserReturned(t, "parseProcess") =>
            /\ Len(parser_calls[t].seen) = Len(CandidatesOf(source.lines))
            /\ parser_calls[t].ret
                  = ResultValue(SelectedByEach(CandidatesOf(source.lines),
                                               parser_calls[t].seen))

\* one parse on the shared instance judged its first candidate by the old
\* predicate and its second by the new one, and returned what neither
\* predicate alone selects
C22_Witness ==
    /\ ~OwnParsers
    /\ filter_race
    /\ ParserReturned(2, "parseProcess")
    /\ parser_calls[2].seen = <<FilterLarge, FilterLargeAnonymous>>
    /\ parser_calls[2].ret # parseProcess(source, FilterLarge, -1)
    /\ parser_calls[2].ret # parseProcess(source, FilterLargeAnonymous, -1)

=============================================================================
